---- MODULE Spec2Model ----
\* Model of the Fishbowl API client transport (src/fishbowl/api.py):
\* the connection state machine of class Fishbowl (make_stream, connect,
\* close, send_message, send_request, send_query) executed statement by
\* statement on an explicit call stack, against a peer that may answer,
\* stall, fail or close the stream at every socket operation; and the
\* length-prefixed frame codec (pack_message and the receive sequence).
EXTENDS Integers, Sequences, FiniteSets, TLC

\* ---------------------------------------------------------------- bounds

\* Number of calls the user makes on one Fishbowl instance in a behaviour.
MaxOps == 3
\* Longest response payload (in bytes) the peer delivers in the state machine.
MaxPayload == 2
\* Largest retry count passed to make_stream when it is called directly.
MaxRetry == 3
\* Longest payload materialised byte by byte in the frame codec runs.
MaxFrameLen == 3
\* Most elements of a response document handed to send_request's checks.
MaxDoc == 3
\* Number of calls the body of a `with` block makes on its connection.
MaxBodyCalls == 1
\* Number of accesses made to one FishbowlObject.
MaxAccesses == 3
\* Most scalar items of a source dict handed to the mapper.
MaxKeys == 2
\* Most items of a list value in a source dict.
MaxItems == 2
\* Number of objects constructed of one class.
MaxObjects == 2
\* Most Row elements in the response to a query.
MaxRows == 3
\* Number of times the caller iterates over the reader of one query.
MaxPasses == 2
\* Most response frames the peer puts on the stream of one connection.
MaxCalls == 2

\* -------------------------------------------------------- program constants

\* make_stream(self, timeout=5, retry=3)
DefaultRetry == 3
\* the length header is 4 bytes ('>L')
HeaderLen == 4

\* ------------------------------------------------------------ basic values

None == "None"
Unset == "<unset>"

\* statuscodes.SUCCESS, the default expected code of check_status
SUCCESS == "SUCCESS"
\* the status expected of a logout response
LOGOUT_EXPECTED == "1010"

NoExc == [type |-> "none", msg |-> ""]
Exc(t, m) == [type |-> t, msg |-> m]
NotConnected == Exc("OSError", "Not connected")

\* strerror texts of socket errors raised by stream.connect; NoStrerror stands
\* for an error whose strerror attribute is None (e.g. socket.timeout).
ErrTexts == {"e1", "e2"}
NoStrerror == ""

\* ------------------------------------------------- responses as XML documents

\* The elements a response may hold.  A payload byte b below Len(Elements)
\* stands for the serialisation of Elements[b + 1]; the byte Len(Elements)
\* stands for text that is not well-formed XML.
Elements ==
    << [tag |-> "Key",       text |-> "k1", code |-> None],
       [tag |-> "FbiMsgsRs", text |-> None, code |-> SUCCESS],
       [tag |-> "FbiMsgsRs", text |-> None, code |-> LOGOUT_EXPECTED],
       [tag |-> "Rs",        text |-> None, code |-> None],
       [tag |-> "Rs",        text |-> None, code |-> "1004"],
       [tag |-> "Item",      text |-> None, code |-> None] >>

\* A document is the sequence of the elements below the root element in
\* document order.  The nesting follows the tags: the status wrapper
\* FbiMsgsRs and Key are children of the root, a named response node Rs is a
\* child of the element of depth 1 before it, an Item a child of the Rs
\* before it.
Depth(e) == CASE e.tag = "Rs" -> 2 [] e.tag = "Item" -> 3 [] OTHER -> 1

\* the bytes the peer sends in the connection state machine
PayloadBytes ==
    { b \in 0..Len(Elements) :
         b < Len(Elements) => (Elements[b + 1].tag # "Item" /\ Elements[b + 1].code # "1004") }

\* etree.fromstring(response): the empty document, malformed text and an
\* element without a parent raise XMLSyntaxError, otherwise the elements in
\* document order.
XmlWellFormed(bytes) ==
    /\ Len(bytes) > 0
    /\ \A i \in 1..Len(bytes) :
          /\ bytes[i] < Len(Elements)
          /\ Depth(Elements[bytes[i] + 1]) <=
                1 + (IF i = 1 THEN 0 ELSE
                       IF bytes[i - 1] < Len(Elements)
                         THEN Depth(Elements[bytes[i - 1] + 1]) ELSE 0)

XmlParse(bytes) == [i \in 1..Len(bytes) |-> Elements[bytes[i] + 1]]

ChildrenMutant(doc, p) == {}
\* the children of element p of the document (p = 0: of the root), as
\* positions in the document
Children(doc, p) ==
    LET d == IF p = 0 THEN 0 ELSE Depth(doc[p])
    IN  { j \in (p + 1)..Len(doc) :
            /\ Depth(doc[j]) = d + 1
            /\ \A k \in (p + 1)..(j - 1) : Depth(doc[k]) > d }

\* element.find(tag) on element p: the first child with that tag, 0 when
\* there is none (find returns None)
Find(doc, p, tag) ==
    LET hits == { j \in Children(doc, p) : doc[j].tag = tag }
    IN  IF hits = {} THEN 0 ELSE CHOOSE i \in hits : \A j \in hits : i <= j

\* ------------------------------------------------------------- frame codec

PackLMutant(n) ==
    << n % 256, (n \div 256) % 256, (n \div 65536) % 256, (n \div 16777216) % 256 >>
\* struct.pack(">L", n): 4 bytes, most significant first.
PackL(n) ==
    << (n \div 16777216) % 256, (n \div 65536) % 256, (n \div 256) % 256, n % 256 >>

\* struct.unpack(">L", b)[0]
UnpackL(b) == b[1] * 16777216 + b[2] * 65536 + b[3] * 256 + b[4]

\* pack_message: packed_length + msg
pack_message(msg) == PackL(Len(msg)) \o msg

\* `while len(packed_length) < 4`
HeaderIncomplete(packed) == Len(packed) < HeaderLen

\* the argument of recv in the header loop: 4 - len(packed_length)
HeaderWantMutant(packed) == HeaderLen
HeaderWant(packed) == HeaderLen - Len(packed)

PayloadIncompleteMutant(response, length) == Len(response) <= length
\* `while byte_count < length`
PayloadIncomplete(response, length) == Len(response) < length

\* ------------------------------------------------------------ status checker

CheckStatusFailsMutant(code, expected, allow_none) == code # expected
\* check_status raises iff code != expected and (code is not None or not allow_none)
CheckStatusFails(code, expected, allow_none) ==
    code # expected /\ (code # None \/ ~allow_none)

\* statuscodes.get_status(code): the text the code table holds for the code
get_status(code) ==
    CASE code = SUCCESS -> "text of SUCCESS"
      [] code = LOGOUT_EXPECTED -> "text of 1010"
      [] code = None -> "text of None"
      [] OTHER -> "text of another code"

\* check_status(element, expected, allow_none): [exc, ret]
check_status(element, expected, allow_none) ==
    LET code == element.code
        message == IF element.message = None THEN get_status(code)
                   ELSE element.message
    IN  IF CheckStatusFails(code, expected, allow_none)
          THEN [exc |-> Exc("FishbowlError", message), ret |-> None]
          ELSE [exc |-> NoExc, ret |-> message]

\* ------------------------------------------------------------------ state

VARIABLES
    connected,   \* self._connected
    key,         \* self.key (Unset while the attribute does not exist)
    username,    \* self.username (Unset until a login succeeded)
    stream,      \* self.stream: a socket id, 0 while the attribute does not exist
    socks,       \* socks[s]: "open" | "closed" | "leased" for every connected socket
    stack,       \* call stack of the running operation, <<>> when idle
    result,      \* outcome of the last finished top-level call
    call,        \* the running / last top-level call with the state it started in
    log,         \* socket events of the running / last top-level call
    caught,      \* exception that reached the top-level call's own frame
    lastErr,     \* strerror of the latest failed connection attempt
    nops,        \* number of top-level calls made
    fr,          \* frame codec run (FrameSpec)
    cs,          \* check_status run (StatusSpec)
    lz,          \* a FishbowlObject and the accesses made to it (LazySpec)
    mp,          \* a class, its schema and the objects constructed of it (MapperSpec)
    qy           \* the rows of a query response and the reader over them (QuerySpec)

vars == << connected, key, username, stream, socks, stack, result, call, log,
           caught, lastErr, nops, fr, cs, lz, mp, qy >>

\* the runs of the functions that are checked on their own
runs == << fr, cs, lz, mp, qy >>

conn == << connected, key, username, stream, socks >>

NoElement == [tag |-> None, text |-> None, code |-> None]
\* etree.Element("empty")
EmptyElement == [tag |-> "empty", text |-> None, code |-> None]

Frame0 ==
    [ fn |-> "", pc |-> "", skip |-> FALSE, has_key |-> None, doc |-> <<>>,
      i |-> 0, retry |-> 0, retry0 |-> 0,
      msg |-> "", saved |-> NoExc, req |-> "", packed |-> <<>>, length |-> 0,
      received_length |-> FALSE, response |-> <<>>, node |-> FALSE,
      single |-> FALSE, silence |-> FALSE, sock |-> 0, el |-> NoElement,
      at |-> "", eof |-> FALSE ]

Top(st) == st[Len(st)]
Pop(st) == SubSeq(st, 1, Len(st) - 1)
SetTop(st, f) == [st EXCEPT ![Len(st)] = f]
Push(st, f) == Append(st, f)

Idle == stack = <<>>
Running(fn, pc) == stack # <<>> /\ Top(stack).fn = fn /\ Top(stack).pc = pc

FrameIdle == [pc |-> "idle", payload |-> <<>>, n |-> 0, elided |-> FALSE,
              wire |-> <<>>, packed |-> <<>>, length |-> 0, response |-> <<>>,
              reads |-> <<>>]

StatusIdle == [pc |-> "idle", code |-> None, message |-> None, expected |-> SUCCESS,
               allow_none |-> FALSE, exc |-> NoExc, ret |-> None]

\* the empty dict
EmptyMap == [k \in {} |-> None]

\* Python's None as a value
PyNone == [py |-> "None"]

\* no class chosen, no object constructed
MapperIdle == [pc |-> "new", cls |-> "", fields |-> <<>>, data |-> PyNone,
               custom |-> <<>>, merged |-> FALSE, exc |-> NoExc, mapped |-> EmptyMap,
               squashed |-> PyNone, n |-> 0]

\* no response handed to send_query yet; texts are sequences of characters
QueryIdle == [pc |-> "new", rows |-> <<>>, file |-> <<>>, pos |-> 0, has_fields |-> FALSE,
              fieldnames |-> <<>>, exhausted |-> FALSE, pass |-> 0, yielded |-> <<>>,
              done |-> FALSE]

LazyIdle == [pc |-> "new", eager |-> FALSE, lazy |-> FALSE, has_mapped |-> FALSE, mapped |-> EmptyMap,
             calls |-> 0, n |-> 0, op |-> "", item |-> "", value |-> PyNone, exc |-> NoExc]

NoResult == [exc |-> NoExc, doc |-> <<>>, el |-> NoElement, sock |-> 0]
NoCall == [op |-> "none", skip |-> FALSE, retry |-> 0, connected0 |-> FALSE,
           key0 |-> Unset, username0 |-> Unset, stream0 |-> 0]


\* ------------------------------------------------------- exceptions, returns

Truthy(k) == k \notin {None, Unset, ""}

\* connect: the statements inside `try:` (lines 156-170); the frame waits at
\* "response" while send_message runs.
ConnectTryPcs == {"login", "response", "checkkey"}

\* send_message: the statements inside `try:` (lines 298-307)
RecvPcs == {"header", "payload"}

\* close: `except Exception: if not skip_errors: raise`
CloseSuppressesMutant(skip_errors) == TRUE
CloseSuppresses(skip_errors) == skip_errors

\* Locals that are never read again are reset when a handler is entered.
\* The stack after exception e is raised in the top frame of st: the frames
\* without a handler for e at their position are popped; `exc` is what reaches
\* the user, `bottom` whether e reached the frame of the top-level call.
RECURSIVE Throw(_, _)
Throw(st, e) ==
    IF st = <<>> THEN [stack |-> <<>>, exc |-> e, bottom |-> TRUE]
    ELSE
      LET f == Top(st)
          r == CASE f.fn = "connect" /\ f.pc \in ConnectTryPcs ->
                      [stack |-> SetTop(st, [f EXCEPT !.pc = "except", !.saved = e,
                                                      !.doc = <<>>, !.i = 0]),
                       exc |-> NoExc, bottom |-> FALSE]
                 [] f.fn = "close" /\ CloseSuppresses(f.skip) ->
                      [stack |-> Pop(st), exc |-> NoExc, bottom |-> FALSE]
                 [] f.fn = "send_message" /\ f.pc \in RecvPcs /\ e.type = "socket.timeout" ->
                      [stack |-> SetTop(st, [f EXCEPT !.pc = "except", !.at = f.pc,
                                                      !.packed = <<>>,
                                                      !.response = <<>>, !.length = 0]),
                       exc |-> NoExc, bottom |-> FALSE]
                 [] f.fn = "with" /\ f.pc = "body" ->
                      [stack |-> SetTop(st, [f EXCEPT !.pc = "exit", !.saved = e,
                                                      !.doc = <<>>, !.el = NoElement]),
                       exc |-> NoExc, bottom |-> FALSE]
                 [] f.fn = "with" /\ f.pc = "closing" /\ e.type = "FishbowlTimeoutError" ->
                      [stack |-> SetTop(st, [f EXCEPT !.pc = "end"]),
                       exc |-> NoExc, bottom |-> FALSE]
                 [] OTHER -> Throw(Pop(st), e)
      IN  IF Len(st) = 1 THEN [r EXCEPT !.bottom = TRUE] ELSE r

Raise(e) ==
    LET r == Throw(stack, e)
    IN  /\ stack' = r.stack
        /\ caught' = IF r.bottom THEN e ELSE caught
        /\ result' = IF r.stack = <<>> THEN [NoResult EXCEPT !.exc = r.exc] ELSE result

\* `return` of the top frame: the caller, waiting at the statement after the
\* call, receives the value in its frame; the user receives it in result.
Return(doc, el, sock) ==
    /\ UNCHANGED caught
    /\ IF Len(stack) = 1
         THEN /\ stack' = <<>>
              /\ result' = [exc |-> NoExc, doc |-> doc, el |-> el, sock |-> sock]
         ELSE /\ stack' = SetTop(Pop(stack),
                     [Top(Pop(stack)) EXCEPT !.doc = doc, !.el = el, !.sock = sock])
              /\ UNCHANGED result

ReturnNone ==
    /\ UNCHANGED caught
    /\ stack' = Pop(stack)
    /\ result' = IF Len(stack) = 1 THEN NoResult ELSE result

Goto(pc) ==
    /\ stack' = SetTop(stack, [Top(stack) EXCEPT !.pc = pc])
    /\ UNCHANGED << result, caught >>

\* the top frame moves to pc and calls g
CallFrom(pc, g) ==
    /\ stack' = Push(SetTop(stack, [Top(stack) EXCEPT !.pc = pc]), g)
    /\ UNCHANGED << result, caught >>

Event(e, s, r, k) == [e |-> e, sock |-> s, req |-> r, key |-> k]

\* --------------------------------------------------------- top-level calls

Snapshot(op, skip, retry) ==
    [op |-> op, skip |-> skip, retry |-> retry, connected0 |-> connected,
     key0 |-> key, username0 |-> username, stream0 |-> stream]

Begin(f, skip, retry) ==
    /\ Idle
    /\ nops < MaxOps
    /\ stack' = << f >>
    /\ call' = Snapshot(f.fn, skip, retry)
    /\ log' = <<>>
    /\ caught' = NoExc
    /\ lastErr' = ""
    /\ result' = NoResult
    /\ nops' = nops + 1
    /\ UNCHANGED << conn, runs >>

ConnectFrame == [Frame0 EXCEPT !.fn = "connect", !.pc = "start"]
CloseFrame(skip_errors) ==
    [Frame0 EXCEPT !.fn = "close", !.pc = "start", !.skip = skip_errors]
SendMessageFrame(req) ==
    [Frame0 EXCEPT !.fn = "send_message", !.pc = "enter", !.req = req]
SendRequestFrame(node, single, silence) ==
    [Frame0 EXCEPT !.fn = "send_request", !.pc = "enter", !.node = node,
                   !.single = single, !.silence = silence]
SendQueryFrame == [Frame0 EXCEPT !.fn = "send_query", !.pc = "enter"]
MakeStreamFrame(retry) ==
    [Frame0 EXCEPT !.fn = "make_stream", !.pc = "attempt", !.retry = retry,
                   !.retry0 = retry]

\* the (response_node_name given, single, silence_errors) combinations
RequestModes ==
    { << FALSE, TRUE, FALSE >> } \cup { << TRUE, s, q >> : s \in BOOLEAN, q \in BOOLEAN }

UserConnect == Begin(ConnectFrame, FALSE, DefaultRetry)
UserClose == \E skip_errors \in BOOLEAN : Begin(CloseFrame(skip_errors), skip_errors, 0)
UserSendMessage == Begin(SendMessageFrame("request"), FALSE, 0)
UserSendRequest ==
    \E m \in RequestModes : Begin(SendRequestFrame(m[1], m[2], m[3]), FALSE, 0)
UserSendQuery == Begin(SendQueryFrame, FALSE, 0)
UserMakeStream == \E r \in 0..MaxRetry : Begin(MakeStreamFrame(r), FALSE, r)


\* ------------------------------------------------------------- make_stream

\* `if not retry:` gives up
GivesUpMutant(retry) == retry < 0
GivesUp(retry) == retry = 0

\* msg = getattr(e, "strerror", None) or e.message
ErrorText(strerror) == strerror

\* One pass of the `while True` body up to the sleep: a new socket tries to
\* connect.  Success leaves the loop and returns the stream; a socket error
\* with a strerror gives up when no retry is left; a socket error without a
\* strerror fails on `e.message`, which exceptions do not have.
MakeStreamAttempt ==
    /\ Running("make_stream", "attempt")
    /\ LET f == Top(stack)
       IN \/ \* stream.connect succeeds
             LET s == Len(socks) + 1
             IN  /\ socks' = Append(socks, IF Len(stack) = 1 THEN "leased" ELSE "open")
                 /\ log' = Append(log, Event("open", s, "", None))
                 /\ lastErr' = ""
                 /\ Return(<<>>, NoElement, s)
                 /\ UNCHANGED << connected, key, username, stream >>
          \/ \* socket.error with a strerror
             \E strerror \in ErrTexts :
                /\ lastErr' = strerror
                /\ log' = Append(log, Event("failed", 0, "", None))
                /\ UNCHANGED conn
                /\ IF GivesUp(f.retry)
                     THEN Raise(Exc("FishbowlConnectionError", ErrorText(strerror)))
                     ELSE /\ stack' = SetTop(stack,
                                 [f EXCEPT !.pc = "sleep", !.msg = ErrorText(strerror)])
                          /\ UNCHANGED << result, caught >>
          \/ \* socket.error whose strerror is None
             /\ lastErr' = NoStrerror
             /\ log' = Append(log, Event("failed", 0, "", None))
             /\ UNCHANGED conn
             /\ Raise(Exc("AttributeError", "message"))
    /\ UNCHANGED << call, nops, runs >>

\* time.sleep(5); retry -= 1
MakeStreamSleep ==
    /\ Running("make_stream", "sleep")
    /\ LET f == Top(stack)
       IN  stack' = SetTop(stack, [f EXCEPT !.pc = "attempt", !.retry = f.retry - 1])
    /\ log' = Append(log, Event("sleep", 0, "", None))
    /\ UNCHANGED << conn, result, call, caught, lastErr, nops, runs >>

\* ------------------------------------------------------------------ connect

\* skip_errors of the `self.close()` that connect makes first: the default
ConnectCloseSkipErrorsMutant == TRUE
ConnectCloseSkipErrors == FALSE

\* if self.connected: self.close()
ConnectStart ==
    /\ Running("connect", "start")
    /\ IF connected THEN CallFrom("open", CloseFrame(ConnectCloseSkipErrors))
                    ELSE Goto("open")
    /\ UNCHANGED << conn, call, log, lastErr, nops, runs >>

\* self.stream = self.make_stream(timeout=float(timeout)), the call
ConnectOpen ==
    /\ Running("connect", "open")
    /\ CallFrom("opened", MakeStreamFrame(DefaultRetry))
    /\ UNCHANGED << conn, call, log, lastErr, nops, runs >>

\* self.stream = <returned socket>; self._connected = True
ConnectOpened ==
    /\ Running("connect", "opened")
    /\ stream' = Top(stack).sock
    /\ connected' = TRUE
    /\ Goto("login")
    /\ UNCHANGED << key, username, socks, call, log, lastErr, nops, runs >>

\* self.key = None; response = self.send_message(login_xml), the call
ConnectLogin ==
    /\ Running("connect", "login")
    /\ key' = None
    /\ CallFrom("response", SendMessageFrame("login"))
    /\ UNCHANGED << connected, username, stream, socks, call, log, lastErr, nops, runs >>

\* the tags whose status connect checks
LoginStatusTags == {"loginRs", "LoginRs", "FbiMsgsRs"}

\* for element in response.iter(): one element per step
ConnectResponse ==
    /\ Running("connect", "response")
    /\ LET f == Top(stack)
       IN  IF f.i < Len(f.doc)
             THEN LET element == f.doc[f.i + 1]
                      newkey == IF element.tag = "Key" THEN element.text ELSE key
                  IN  /\ key' = newkey
                      /\ IF /\ element.tag \in LoginStatusTags
                            /\ CheckStatusFails(element.code, SUCCESS, TRUE)
                           THEN Raise(Exc("FishbowlError", "status"))
                           ELSE /\ stack' = SetTop(stack, [f EXCEPT !.i = f.i + 1])
                                /\ UNCHANGED << result, caught >>
             ELSE /\ Goto("checkkey")
                  /\ UNCHANGED key
    /\ UNCHANGED << connected, username, stream, socks, call, log, lastErr, nops, runs >>

\* if not self.key: raise FishbowlError(msg);  self.username = username
ConnectCheckKey ==
    /\ Running("connect", "checkkey")
    /\ IF ~Truthy(key)
         THEN /\ Raise(Exc("FishbowlError", "No login key in response"))
              /\ UNCHANGED username
         ELSE /\ username' = "user"
              /\ ReturnNone
    /\ UNCHANGED << connected, key, stream, socks, call, log, lastErr, nops, runs >>

\* except Exception: self.close(skip_errors=True), the call
ConnectExcept ==
    /\ Running("connect", "except")
    /\ CallFrom("reraise", CloseFrame(TRUE))
    /\ UNCHANGED << conn, call, log, lastErr, nops, runs >>

\* raise
ConnectReraise ==
    /\ Running("connect", "reraise")
    /\ Raise(Top(stack).saved)
    /\ UNCHANGED << conn, call, log, lastErr, nops, runs >>


\* -------------------------------------------------------------------- close

CloseStartMutant ==
    /\ Running("close", "start")
    /\ stack' = SetTop(stack, [Top(stack) EXCEPT !.pc = "check", !.has_key = None])
    /\ UNCHANGED << conn, result, call, log, caught, lastErr, nops, runs >>
\* has_key = getattr(self, "key", None); if has_key: self.key = None
CloseStart ==
    /\ Running("close", "start")
    /\ LET f == Top(stack)
           has_key == IF key = Unset THEN None ELSE key
       IN  IF Truthy(has_key)
             THEN /\ key' = None
                  /\ stack' = SetTop(stack, [f EXCEPT !.pc = "logout", !.has_key = has_key])
             ELSE /\ UNCHANGED key
                  /\ stack' = SetTop(stack, [f EXCEPT !.pc = "check", !.has_key = has_key])
    /\ UNCHANGED << connected, username, stream, socks, result, call, log, caught,
                    lastErr, nops, runs >>

\* logout_xml = xmlrequests.Login(self.username, "", logout=self.key, ...).request;
\* logout_response = self.send_message(logout_xml), the call.  Reading
\* self.username fails while no login has ever succeeded.
CloseLogout ==
    /\ Running("close", "logout")
    /\ IF username = Unset
         THEN Raise(Exc("AttributeError", "username"))
         ELSE CallFrom("check", SendMessageFrame("logout"))
    /\ UNCHANGED << conn, call, log, lastErr, nops, runs >>

\* if not self.connected: raise OSError("Not connected");  self._connected = False
CloseCheck ==
    /\ Running("close", "check")
    /\ IF ~connected
         THEN Raise(NotConnected) /\ UNCHANGED connected
         ELSE connected' = FALSE /\ Goto("sockclose")
    /\ UNCHANGED << key, username, stream, socks, call, log, lastErr, nops, runs >>

\* self.stream.close(): the socket is released even when close() reports an error
CloseSocket ==
    /\ Running("close", "sockclose")
    /\ socks' = [socks EXCEPT ![stream] = "closed"]
    /\ log' = Append(log, Event("close", stream, "", None))
    /\ \/ Goto("status")
       \/ Raise(Exc("OSError", "close failed"))
    /\ UNCHANGED << connected, key, username, stream, call, lastErr, nops, runs >>

\* if has_key: check_status(logout_response.find("FbiMsgsRs"), expected="1010")
CloseStatus ==
    /\ Running("close", "status")
    /\ LET f == Top(stack)
           at == Find(f.doc, 0, "FbiMsgsRs")
       IN  IF ~Truthy(f.has_key) THEN ReturnNone
           ELSE IF at = 0 THEN Raise(Exc("AttributeError", "get"))
           ELSE IF CheckStatusFails(f.doc[at].code, LOGOUT_EXPECTED, FALSE)
                  THEN Raise(Exc("FishbowlError", "status"))
           ELSE ReturnNone
    /\ UNCHANGED << conn, call, log, lastErr, nops, runs >>

\* ------------------------------------------------------------- send_message

\* the decorator require_connected lets the call through
RequireConnectedMutant(c) == TRUE
RequireConnected(c) == c

\* @require_connected
Enter(fn, next) ==
    /\ Running(fn, "enter")
    /\ IF RequireConnected(connected) THEN Goto(next) ELSE Raise(NotConnected)
    /\ UNCHANGED << conn, call, log, lastErr, nops, runs >>

SendMessageEnter == Enter("send_message", "send")

\* the key attribute a request carries: none for login, the already cleared
\* self.key for logout, the key held when the request was built otherwise
RequestKey(req) == IF req = "login" THEN None ELSE key

SendMessageSendMutant ==
    /\ Running("send_message", "send")
    /\ \/ /\ stream \in DOMAIN socks
          /\ socks[stream] = "open"
          /\ log' = Append(log, Event("send", stream, Top(stack).req,
                                      RequestKey(Top(stack).req)))
          /\ Goto("header")
          /\ UNCHANGED connected
       \/ /\ UNCHANGED log
          /\ connected' = FALSE
          /\ Raise(Exc("OSError", "send failed"))
    /\ UNCHANGED << key, username, stream, socks, call, lastErr, nops, runs >>
\* self.stream.send(self.pack_message(msg))
SendMessageSend ==
    /\ Running("send_message", "send")
    /\ \/ /\ stream \in DOMAIN socks
          /\ socks[stream] = "open"
          /\ log' = Append(log, Event("send", stream, Top(stack).req,
                                      RequestKey(Top(stack).req)))
          /\ Goto("header")
       \/ /\ UNCHANGED log
          /\ Raise(Exc("OSError", "send failed"))
    /\ UNCHANGED << conn, call, lastErr, nops, runs >>

\* The peer announces a payload of 0..MaxPayload+1 bytes; it never delivers
\* more than MaxPayload, so the longest announced payload stays incomplete.
PeerHeaders == { PackL(n) : n \in 0..(MaxPayload + 1) }

IsPrefix(p, q) == Len(p) <= Len(q) /\ SubSeq(q, 1, Len(p)) = p

\* what one recv(want) may return after `packed` was received: 1..want bytes
\* that continue a header of the peer
HeaderChunks(packed, want) ==
    { SubSeq(h, Len(packed) + 1, Len(packed) + k) :
        h \in { g \in PeerHeaders : IsPrefix(packed, g) }, k \in 1..want }

\* packed_length = b""; while len(packed_length) < 4:
\*     packed_length += self.stream.recv(4 - len(packed_length))
\* length = struct.unpack(">L", packed_length)[0]; received_length = True
\* eof: the peer closed the stream; from then on every recv returns b"" at
\* once, packed_length does not grow and the loop goes on
SendMessageHeader ==
    /\ Running("send_message", "header")
    /\ LET f == Top(stack)
       IN  IF HeaderIncomplete(f.packed)
             THEN IF f.eof THEN UNCHANGED << stack, result, caught >>
                  ELSE \/ \E chunk \in HeaderChunks(f.packed, HeaderWant(f.packed)) :
                             /\ stack' = SetTop(stack, [f EXCEPT !.packed = f.packed \o chunk])
                             /\ UNCHANGED << result, caught >>
                       \/ /\ stack' = SetTop(stack, [f EXCEPT !.eof = TRUE])
                          /\ UNCHANGED << result, caught >>
                       \/ Raise(Exc("socket.timeout", "timed out"))
                       \/ Raise(Exc("OSError", "recv failed"))
             ELSE /\ stack' = SetTop(stack, [f EXCEPT !.pc = "payload",
                                                    !.packed = <<>>,
                                                    !.length = UnpackL(f.packed),
                                                    !.received_length = TRUE])
                  /\ UNCHANGED << result, caught >>
    /\ UNCHANGED << conn, call, log, lastErr, nops, runs >>

\* while byte_count < length: byte = ord(self.stream.recv(1)); response.append(byte)
SendMessagePayload ==
    /\ Running("send_message", "payload")
    /\ LET f == Top(stack)
       IN  IF PayloadIncomplete(f.response, f.length)
             THEN \/ \E byte \in PayloadBytes :
                        /\ Len(f.response) < MaxPayload
                        /\ stack' = SetTop(stack,
                               [f EXCEPT !.response = Append(f.response, byte)])
                        /\ UNCHANGED << result, caught >>
                  \/ \* recv returns b"": ord(b"") raises TypeError
                     Raise(Exc("TypeError", "ord"))
                  \/ Raise(Exc("socket.timeout", "timed out"))
                  \/ Raise(Exc("OSError", "recv failed"))
             ELSE Goto("parse")
    /\ UNCHANGED << conn, call, log, lastErr, nops, runs >>

\* response = response.decode(self.encoding); return etree.fromstring(response)
SendMessageParse ==
    /\ Running("send_message", "parse")
    /\ LET f == Top(stack)
       IN  IF XmlWellFormed(f.response)
             THEN Return(XmlParse(f.response), NoElement, 0)
             ELSE Raise(Exc("XMLSyntaxError", "parse")) 
    /\ UNCHANGED << conn, call, log, lastErr, nops, runs >>

SendMessageExceptMutant ==
    /\ Running("send_message", "except")
    /\ Goto("send")
    /\ UNCHANGED << conn, call, log, lastErr, nops, runs >>
\* except socket.timeout: self.close(skip_errors=True), the call
SendMessageExcept ==
    /\ Running("send_message", "except")
    /\ CallFrom("raise_timeout", CloseFrame(TRUE))
    /\ UNCHANGED << conn, call, log, lastErr, nops, runs >>

TimeoutMessageMutant(received_length) == "Connection timeout"
\* the message of the FishbowlTimeoutError
TimeoutMessage(received_length) ==
    IF received_length THEN "Connection timeout (after length received)"
    ELSE "Connection timeout"

\* raise FishbowlTimeoutError(msg)
SendMessageRaiseTimeout ==
    /\ Running("send_message", "raise_timeout")
    /\ Raise(Exc("FishbowlTimeoutError", TimeoutMessage(Top(stack).received_length)))
    /\ UNCHANGED << conn, call, log, lastErr, nops, runs >>

\* ------------------------------------------------------------- send_request

SendRequestEnter == Enter("send_request", "send")

\* request = xmlrequests.SimpleRequest(request, value, key=self.key);
\* root = self.send_message(request), the call
SendRequestSend ==
    /\ Running("send_request", "send")
    /\ CallFrom("check", SendMessageFrame("request"))
    /\ UNCHANGED << conn, call, log, lastErr, nops, runs >>

StatusFailedMutant(silence_errors) ==
    [exc |-> Exc("FishbowlError", "status"), el |-> EmptyElement]
\* except FishbowlError: if silence_errors: return etree.Element("empty");
\* raise
StatusFailed(silence_errors) ==
    [exc |-> IF silence_errors THEN NoExc ELSE Exc("FishbowlError", "status"),
     el |-> EmptyElement]

\* The outcome of lines 236-252 on the parsed response `doc`:
\* [exc, el] with el the node returned when exc is NoExc.
RequestOutcome(doc, single, silence) ==
    LET resp == Find(doc, 0, "FbiMsgsRs")
        root == IF resp = 0 THEN 0 ELSE Find(doc, resp, "Rs")
        kids == Children(doc, root)
    IN  IF resp = 0 THEN [exc |-> Exc("AttributeError", "get"), el |-> NoElement]
        ELSE IF CheckStatusFails(doc[resp].code, SUCCESS, TRUE) THEN StatusFailed(silence)
        ELSE IF root = 0 THEN [exc |-> Exc("AttributeError", "get"), el |-> NoElement]
        ELSE IF CheckStatusFails(doc[root].code, SUCCESS, TRUE) THEN StatusFailed(silence)
        ELSE IF ~single THEN [exc |-> NoExc, el |-> doc[root]]
        ELSE IF kids # {}
          THEN [exc |-> NoExc, el |-> doc[CHOOSE i \in kids : \A j \in kids : i <= j]]
        ELSE [exc |-> NoExc, el |-> EmptyElement]

\* if response_node_name: ... ; return root
SendRequestCheck ==
    /\ Running("send_request", "check")
    /\ LET f == Top(stack)
           out == RequestOutcome(f.doc, f.single, f.silence)
       IN  IF ~f.node THEN Return(f.doc, NoElement, 0)
           ELSE IF out.exc # NoExc THEN Raise(out.exc)
           ELSE Return(<<>>, out.el, 0)
    /\ UNCHANGED << conn, call, log, lastErr, nops, runs >>

\* --------------------------------------------------------------- send_query

SendQueryEnter == Enter("send_query", "request")

\* response = self.send_request("ExecuteQueryRq", {"Query": query},
\*                              response_node_name="ExecuteQueryRs"), the call
SendQueryRequest ==
    /\ Running("send_query", "request")
    /\ CallFrom("rows", SendRequestFrame(TRUE, TRUE, FALSE))
    /\ UNCHANGED << conn, call, log, lastErr, nops, runs >>

\* the rows of the response are handed to the reader, which is returned
SendQueryRows ==
    /\ Running("send_query", "rows")
    /\ Return(<<>>, Top(stack).el, 0)
    /\ UNCHANGED << conn, call, log, lastErr, nops, runs >>

\* ------------------------------------------------------------ specification

Init ==
    /\ connected = FALSE
    /\ key = Unset
    /\ username = Unset
    /\ stream = 0
    /\ socks = <<>>
    /\ stack = <<>>
    /\ result = NoResult
    /\ call = NoCall
    /\ log = <<>>
    /\ caught = NoExc
    /\ lastErr = ""
    /\ nops = 0
    /\ fr = FrameIdle
    /\ cs = StatusIdle
    /\ lz = LazyIdle
    /\ mp = MapperIdle
    /\ qy = QueryIdle

Next ==
    \/ UserConnect
    \/ UserClose
    \/ UserSendMessage
    \/ UserSendRequest
    \/ UserSendQuery
    \/ UserMakeStream
    \/ MakeStreamAttempt
    \/ MakeStreamSleep
    \/ ConnectStart
    \/ ConnectOpen
    \/ ConnectOpened
    \/ ConnectLogin
    \/ ConnectResponse
    \/ ConnectCheckKey
    \/ ConnectExcept
    \/ ConnectReraise
    \/ CloseStart
    \/ CloseLogout
    \/ CloseCheck
    \/ CloseSocket
    \/ CloseStatus
    \/ SendMessageEnter
    \/ SendMessageSend
    \/ SendMessageHeader
    \/ SendMessagePayload
    \/ SendMessageParse
    \/ SendMessageExcept
    \/ SendMessageRaiseTimeout
    \/ SendRequestEnter
    \/ SendRequestSend
    \/ SendRequestCheck
    \/ SendQueryEnter
    \/ SendQueryRequest
    \/ SendQueryRows

Spec == Init /\ [][Next]_vars


\* --------------------------------------------------- frame codec round trip

\* payload bytes and payload lengths the codec runs are started with
FrameBytes == {0, 1, 255}
FramePayloads == UNION { [1..k -> FrameBytes] : k \in 0..MaxFrameLen }
LenSamples == {0, 1, 255, 256, 65535, 65536, 1000000, 16777216, 2147483647}

\* A run over pack_message(payload); for the long sample lengths only the
\* header is put on the wire (elided) and the run ends once it is decoded.
FrameStartStates ==
    { [FrameIdle EXCEPT !.pc = "header", !.payload = p, !.n = Len(p),
                        !.wire = pack_message(p)] : p \in FramePayloads }
    \cup
    { [FrameIdle EXCEPT !.pc = "header", !.n = n, !.elided = TRUE,
                        !.wire = PackL(n)] : n \in LenSamples }

FrameInit ==
    /\ connected = FALSE
    /\ key = Unset
    /\ username = Unset
    /\ stream = 0
    /\ socks = <<>>
    /\ stack = <<>>
    /\ result = NoResult
    /\ call = NoCall
    /\ log = <<>>
    /\ caught = NoExc
    /\ lastErr = ""
    /\ nops = 0
    /\ fr \in FrameStartStates
    /\ cs = StatusIdle
    /\ lz = LazyIdle
    /\ mp = MapperIdle
    /\ qy = QueryIdle

FrameFrame == << connected, key, username, stream, socks, stack, result, call, log,
                 caught, lastErr, nops, cs, lz, mp, qy >>

\* the header loop of send_message over the wire: recv(4 - len(packed_length))
\* returns between 1 and that many of the bytes that are waiting
FrameRecvHeader ==
    /\ fr.pc = "header"
    /\ IF HeaderIncomplete(fr.packed)
         THEN \E k \in 1..HeaderWant(fr.packed) :
                 /\ k <= Len(fr.wire)
                 /\ fr' = [fr EXCEPT !.packed = fr.packed \o SubSeq(fr.wire, 1, k),
                                     !.wire = SubSeq(fr.wire, k + 1, Len(fr.wire)),
                                     !.reads = Append(fr.reads,
                                         [before |-> Len(fr.packed),
                                          asked |-> HeaderWant(fr.packed),
                                          got |-> k])]
         ELSE fr' = [fr EXCEPT !.length = UnpackL(fr.packed),
                               !.pc = IF fr.elided THEN "done" ELSE "payload"]
    /\ UNCHANGED FrameFrame

\* the payload loop of send_message over the wire: recv(1) per byte
FrameRecvPayload ==
    /\ fr.pc = "payload"
    /\ IF PayloadIncomplete(fr.response, fr.length)
         THEN /\ fr.wire # <<>>
              /\ fr' = [fr EXCEPT !.response = Append(fr.response, Head(fr.wire)),
                                  !.wire = Tail(fr.wire)]
         ELSE fr' = [fr EXCEPT !.pc = "done"]
    /\ UNCHANGED FrameFrame

FrameNext == FrameRecvHeader \/ FrameRecvPayload

FrameSpec == FrameInit /\ [][FrameNext]_vars

\* ------------------------------------------- consecutive frames on one stream

\* The peer answers the calls made on one connection with the frames of
\* `frames`, one after the other on the same stream: the wire holds
\* pack_message of each of them.  `returned` are the payloads the calls made
\* so far have returned.
StreamInit ==
    /\ connected = FALSE
    /\ key = Unset
    /\ username = Unset
    /\ stream = 0
    /\ socks = <<>>
    /\ stack = <<>>
    /\ result = NoResult
    /\ call = NoCall
    /\ log = <<>>
    /\ caught = NoExc
    /\ lastErr = ""
    /\ nops = 0
    /\ \E n \in 1..MaxCalls :
          \E frames \in [1..n -> UNION { [1..k -> {0, 1}] : k \in 0..MaxPayload }] :
             LET wire[i \in 0..n] ==
                     IF i = 0 THEN <<>> ELSE wire[i - 1] \o pack_message(frames[i])
             IN  fr = [pc |-> "header", payload |-> frames[1], n |-> Len(frames[1]),
                       elided |-> FALSE, wire |-> wire[n], packed |-> <<>>,
                       length |-> 0, response |-> <<>>, reads |-> <<>>,
                       frames |-> frames, returned |-> <<>>]
    /\ cs = StatusIdle
    /\ lz = LazyIdle
    /\ mp = MapperIdle
    /\ qy = QueryIdle

\* send_message returns the response it read; the next call on the
\* connection starts its receive sequence with byte_count = 0,
\* response = bytearray(), packed_length = b"" on the same stream
StreamNextCall ==
    /\ fr.pc = "done"
    /\ Len(fr.returned) < Len(fr.frames)
    /\ fr' = IF Len(fr.returned) + 1 < Len(fr.frames)
               THEN [fr EXCEPT !.returned = Append(fr.returned, fr.response),
                               !.pc = "header", !.packed = <<>>, !.length = 0,
                               !.response = <<>>, !.reads = <<>>,
                               !.payload = fr.frames[Len(fr.returned) + 2],
                               !.n = Len(fr.frames[Len(fr.returned) + 2])]
               ELSE [fr EXCEPT !.returned = Append(fr.returned, fr.response),
                               !.pc = "closed"]
    /\ UNCHANGED FrameFrame

StreamSpec == StreamInit /\ [][FrameRecvHeader \/ FrameRecvPayload \/ StreamNextCall]_vars

\* ------------------------------------------------------------ check_status

\* statusCode attributes of an element (None: no attribute)
StatusCodes == {None, SUCCESS, LOGOUT_EXPECTED, "1004"}

StatusInit ==
    /\ connected = FALSE
    /\ key = Unset
    /\ username = Unset
    /\ stream = 0
    /\ socks = <<>>
    /\ stack = <<>>
    /\ result = NoResult
    /\ call = NoCall
    /\ log = <<>>
    /\ caught = NoExc
    /\ lastErr = ""
    /\ nops = 0
    /\ fr = FrameIdle
    /\ cs \in { [StatusIdle EXCEPT !.pc = "call", !.code = c, !.message = m,
                                   !.expected = e, !.allow_none = a] :
                   \* statusMessage attributes (None: no attribute) and the
                   \* expected codes that callers pass
                   c \in StatusCodes, m \in {None, "m1", "m2"},
                   e \in StatusCodes \ {None}, a \in BOOLEAN }
    /\ lz = LazyIdle
    /\ mp = MapperIdle
    /\ qy = QueryIdle

\* one call of check_status on an element with the drawn attributes
CheckStatusCall ==
    /\ cs.pc = "call"
    /\ LET r == check_status([code |-> cs.code, message |-> cs.message],
                             cs.expected, cs.allow_none)
       IN  cs' = [cs EXCEPT !.pc = "done", !.exc = r.exc, !.ret = r.ret]
    /\ UNCHANGED << connected, key, username, stream, socks, stack, result, call,
                    log, caught, lastErr, nops, fr, lz, mp, qy >>

StatusSpec == StatusInit /\ [][CheckStatusCall]_vars

\* ---------------------------------------------- send_request on a response

\* the well-formed response documents of up to MaxDoc elements
RequestDocs ==
    { XmlParse(b) : b \in { c \in UNION { [1..n -> 0..(Len(Elements) - 1)] : n \in 1..MaxDoc } :
                              XmlWellFormed(c) } }

\* send_request on a connected session, at the statement after send_message
\* returned the parsed response
RequestInit ==
    /\ connected = TRUE
    /\ key = "k1"
    /\ username = "user"
    /\ stream = 1
    /\ socks = << "open" >>
    /\ \E doc \in RequestDocs, m \in RequestModes :
          stack = << [SendRequestFrame(m[1], m[2], m[3]) EXCEPT !.pc = "check",
                                                               !.doc = doc] >>
    /\ result = NoResult
    /\ call = [NoCall EXCEPT !.op = "send_request", !.connected0 = TRUE, !.key0 = "k1",
                             !.username0 = "user", !.stream0 = 1]
    /\ log = << Event("send", 1, "request", "k1") >>
    /\ caught = NoExc
    /\ lastErr = ""
    /\ nops = 1
    /\ fr = FrameIdle
    /\ cs = StatusIdle
    /\ lz = LazyIdle
    /\ mp = MapperIdle
    /\ qy = QueryIdle

RequestSpec == RequestInit /\ [][SendRequestCheck]_vars

\* ------------------------------------------------- FishbowlAPI as a context

\* __enter__: self.fb = Fishbowl(task_name=self.task_name);
\* self.fb.connect(**self.connection_args), the call
WithEnter ==
    /\ Running("with", "enter")
    /\ CallFrom("entered", ConnectFrame)
    /\ UNCHANGED << conn, call, log, lastErr, nops, runs >>

\* return self.fb: the body of the block starts with the connection
WithEntered ==
    /\ Running("with", "entered")
    /\ Goto("body")
    /\ log' = <<>>
    /\ lastErr' = ""
    /\ UNCHANGED << conn, call, nops, runs >>

\* The body of the block: it ends, raises an error of its own, or calls the
\* connection; an exception of the body is handed to __exit__.
WithBody ==
    /\ Running("with", "body")
    /\ LET f == Top(stack)
       IN  \/ Goto("exit")
           \/ Raise(Exc("BodyError", "body"))
           \/ /\ f.i < MaxBodyCalls
              /\ \E g \in { SendMessageFrame("request"), SendQueryFrame, CloseFrame(FALSE) }
                           \cup { SendRequestFrame(m[1], m[2], m[3]) : m \in RequestModes } :
                    stack' = Push(SetTop(stack, [f EXCEPT !.i = f.i + 1]), g)
              /\ UNCHANGED << result, caught >>
    /\ UNCHANGED << conn, call, log, lastErr, nops, runs >>

ExitSkipErrorsMutant(saved) == FALSE
\* bool(traceback): whether the body raised
ExitSkipErrors(saved) == saved # NoExc

\* __exit__: self.fb.close(skip_errors=bool(traceback)), the call
WithExit ==
    /\ Running("with", "exit")
    /\ CallFrom("closing", CloseFrame(ExitSkipErrors(Top(stack).saved)))
    /\ UNCHANGED << conn, call, log, lastErr, nops, runs >>

\* __exit__ returns None (close returned, or its FishbowlTimeoutError was
\* passed over): the block ends, re-raising the exception of the body
WithEnd ==
    /\ stack # <<>>
    /\ Top(stack).fn = "with"
    /\ Top(stack).pc \in {"closing", "end"}
    /\ IF Top(stack).saved = NoExc
         THEN ReturnNone
         ELSE /\ stack' = Pop(stack)
              /\ result' = [NoResult EXCEPT !.exc = Top(stack).saved]
              /\ UNCHANGED caught
    /\ UNCHANGED << conn, call, log, lastErr, nops, runs >>

\* `with FishbowlAPI(...) as connection:` on a new Fishbowl instance
ScopeInit ==
    /\ connected = FALSE
    /\ key = Unset
    /\ username = Unset
    /\ stream = 0
    /\ socks = <<>>
    /\ stack = << [Frame0 EXCEPT !.fn = "with", !.pc = "enter"] >>
    /\ result = NoResult
    /\ call = [NoCall EXCEPT !.op = "with"]
    /\ log = <<>>
    /\ caught = NoExc
    /\ lastErr = ""
    /\ nops = 0
    /\ fr = FrameIdle
    /\ cs = StatusIdle
    /\ lz = LazyIdle
    /\ mp = MapperIdle
    /\ qy = QueryIdle

ScopeNext ==
    \/ WithEnter
    \/ WithEntered
    \/ WithBody
    \/ WithExit
    \/ WithEnd
    \/ MakeStreamAttempt
    \/ MakeStreamSleep
    \/ ConnectStart
    \/ ConnectOpen
    \/ ConnectOpened
    \/ ConnectLogin
    \/ ConnectResponse
    \/ ConnectCheckKey
    \/ ConnectExcept
    \/ ConnectReraise
    \/ CloseStart
    \/ CloseLogout
    \/ CloseCheck
    \/ CloseSocket
    \/ CloseStatus
    \/ SendMessageEnter
    \/ SendMessageSend
    \/ SendMessageHeader
    \/ SendMessagePayload
    \/ SendMessageParse
    \/ SendMessageExcept
    \/ SendMessageRaiseTimeout
    \/ SendRequestEnter
    \/ SendRequestSend
    \/ SendRequestCheck
    \/ SendQueryEnter
    \/ SendQueryRequest
    \/ SendQueryRows

ScopeSpec == ScopeInit /\ [][ScopeNext]_vars

\* ------------------------------------------------------------ FishbowlObject

\* Python values are records tagged by `py`: None, a str [s], an int [n], a
\* list [l], a dict [items: its items [k, v] in insertion order], a
\* FishbowlObject [cls, mapped]

\* the classes in use: id_field and fields, a field being [name, parser] and
\* a parser None (none), int, or a list of candidate classes [of]
Schemas ==
    [ cls \in {"Customer", "Address", "State", "CustomListItem", "CustomList"} |->
        CASE cls = "Customer" ->
               [id_field |-> "CustomerID",
                fields |-> << [name |-> "CustomerID", parser |-> [p |-> "int", of |-> {}]],
                              [name |-> "Name", parser |-> [p |-> "none", of |-> {}]],
                              [name |-> "Addresses", parser |-> [p |-> "list", of |-> {"Address"}]] >>]
          [] cls = "CustomListItem" ->
               [id_field |-> None,
                fields |-> << [name |-> "ID", parser |-> [p |-> "int", of |-> {}]],
                              [name |-> "Name", parser |-> [p |-> "none", of |-> {}]],
                              [name |-> "Description", parser |-> [p |-> "none", of |-> {}]] >>]
          [] cls = "CustomList" ->
               [id_field |-> None,
                fields |-> << [name |-> "ID", parser |-> [p |-> "int", of |-> {}]],
                              [name |-> "Name", parser |-> [p |-> "none", of |-> {}]],
                              [name |-> "Description", parser |-> [p |-> "none", of |-> {}]],
                              [name |-> "CustomListItems",
                               parser |-> [p |-> "list", of |-> {"CustomListItem"}]] >>]
          [] OTHER ->
               [id_field |-> None,
                fields |-> << [name |-> "ID", parser |-> [p |-> "int", of |-> {}]],
                              [name |-> "Name", parser |-> [p |-> "none", of |-> {}]] >>] ]

\* str.lower() of the keys, field names and texts in use
Lower(k) ==
    CASE k \in {"ID", "Id"} -> "id"
      [] k = "CustomerID" -> "customerid"
      [] k \in {"Name", "NAME"} -> "name"
      [] k = "Description" -> "description"
      [] k = "Addresses" -> "addresses"
      [] k = "Extra" -> "extra"
      [] k = "Tags" -> "tags"
      [] k = "F" -> "f"
      [] OTHER -> k

\* int(text) for the texts that int() accepts; it raises on every other text
IntOf == ("0" :> 0) @@ ("5" :> 5) @@ ("7" :> 7)

\* bool(value) of a parsed value
PyTruthy(value) ==
    CASE value.py = "None" -> FALSE
      [] value.py = "int" -> value.n # 0
      [] value.py = "str" -> value.s # ""
      [] value.py = "list" -> value.l # <<>>
      [] value.py = "bool" -> value.b
      [] OTHER -> TRUE

\* fishbowl_boolean(text) of a text: False for the empty text and for the
\* texts "0", "false", "f" in any case, True for every other text
fishbowl_boolean(text) ==
    IF ~PyTruthy(text) THEN FALSE
    ELSE IF Lower(text.s) \in {"0", "false", "f"} THEN FALSE
    ELSE TRUE

\* fields.update(custom): a field of that name takes the new parser in place,
\* a new field is appended
DictUpdate(fields, custom) ==
    LET Named(name) == CHOOSE i \in DOMAIN custom : custom[i].name = name
        IsNew(c) == \A j \in DOMAIN fields : fields[j].name # c.name
    IN  [j \in DOMAIN fields |->
           IF \E i \in DOMAIN custom : custom[i].name = fields[j].name
             THEN custom[Named(fields[j].name)] ELSE fields[j]]
        \o SelectSeq(custom, IsNew)

\* the conversion function of a scalar field raises on the value: int() of
\* a text that is no number, or of a value that is no text; fishbowl_boolean
\* of a non-empty value that is no text (it has no lower())
ScalarFails(p, value) ==
    \/ p = "int" /\ (value.py # "str" \/ value.s \notin DOMAIN IntOf)
    \/ p = "bool" /\ PyTruthy(value) /\ value.py # "str"

ConversionErrorMutant == Exc("ValueError", "invalid literal for int()")
\* the error a failed conversion leaves parse_fields with: `except Exception:
\* continue` drops it
ConversionError == NoExc

CandidatesMutant(of) == of
\* the classes a list parser constructs, by name: the listed ones, or
\* all_fishbowl_objects() when the list is empty
Candidates(of) == IF of = {} THEN DOMAIN Schemas ELSE of

ClassFieldsAfterMutant(fields, custom) == DictUpdate(fields, custom)
\* the class attribute `fields` after parse_fields merged custom fields: the
\* update is applied to a deep copy
ClassFieldsAfter(fields, custom) == fields

RECURSIVE parse_fields(_, _, _, _)
\* parse_fields(data) on an object of class cls with self.custom_fields =
\* custom (<<>>: none), `fields` being the class attribute as it is now:
\* [exc, out, fields] with out the resolved mapping and fields the class
\* attribute afterwards. Schemas with a dict parser or a class parser are not
\* among the classes in use.
parse_fields(cls, fields, custom, data) ==
    IF data.py = "None" THEN [exc |-> NoExc, out |-> EmptyMap, fields |-> fields]
    ELSE
    LET id_field == Schemas[cls].id_field
        \* data.get(data_map.get(field_name.lower())): data_map is built by
        \* dict((k.lower(), k) for k in data), a later key replaces an earlier one
        Get(name) ==
            LET at == {i \in DOMAIN data.items : Lower(data.items[i].k) = Lower(name)}
            IN  IF at = {} THEN PyNone
                ELSE data.items[CHOOSE i \in at : \A j \in at : j <= i].v
        \* child_parser(child): an eager construction
        Child(pair) ==
            IF pair.v.py # "dict"
              THEN [exc |-> Exc("AttributeError", "Expected either data or lazy_data"),
                    obj |-> PyNone]
              ELSE [exc |-> parse_fields(pair.k, Schemas[pair.k].fields, <<>>, pair.v).exc,
                    obj |-> [py |-> "object", cls |-> pair.k,
                             mapped |-> parse_fields(pair.k, Schemas[pair.k].fields,
                                                     <<>>, pair.v).out]]
        \* the list parser: [exc, value]; kept are the items other than "{}",
        \* children the objects made of the pairs whose key names a class
        ListValue(kept, children) ==
            IF \E i \in DOMAIN kept : kept[i].py # "dict"
              THEN [exc |-> Exc("AttributeError", "items"), value |-> PyNone]
            ELSE IF \E i \in DOMAIN children : children[i].exc # NoExc
              THEN [exc |-> children[CHOOSE i \in DOMAIN children :
                                       children[i].exc # NoExc].exc,
                    value |-> PyNone]
            ELSE [exc |-> NoExc,
                  value |-> [py |-> "list",
                             l |-> [i \in DOMAIN children |-> children[i].obj]]]
        Objects(matching) == [i \in DOMAIN matching |-> Child(matching[i])]
        Pairs(kept) ==
            LET flat[i \in 0..Len(kept)] ==
                    IF i = 0 THEN <<>>
                    ELSE flat[i-1] \o (IF kept[i].py = "dict" THEN kept[i].items ELSE <<>>)
            IN  flat[Len(kept)]
        Items(kept, of) ==
            LET Matches(pair) == pair.k \in Candidates(of)
            IN  ListValue(kept, Objects(SelectSeq(Pairs(kept), Matches)))
        ParseList(value, of) ==
            LET Kept(it) == ~(it.py = "str" /\ it.s = "{}")
            IN  Items(SelectSeq(IF value.py = "list" THEN value.l ELSE << value >>, Kept), of)
        \* one round of the loop over the fields: the field is skipped, gets
        \* a value, or an error leaves the loop
        ListRound(r) == [exc |-> r.exc, skip |-> r.exc # NoExc, value |-> r.value]
        Round(f, value) ==
            IF value.py = "None" THEN [exc |-> NoExc, skip |-> TRUE, value |-> PyNone]
            ELSE IF f.parser.p = "list" THEN ListRound(ParseList(value, f.parser.of))
            ELSE IF ScalarFails(f.parser.p, value)
              THEN [exc |-> ConversionError, skip |-> TRUE, value |-> PyNone]
            ELSE IF f.parser.p = "int"
              THEN [exc |-> NoExc, skip |-> FALSE,
                    value |-> [py |-> "int", n |-> IntOf[value.s]]]
            ELSE IF f.parser.p = "bool"
              THEN [exc |-> NoExc, skip |-> FALSE,
                    value |-> [py |-> "bool", b |-> fishbowl_boolean(value)]]
            ELSE [exc |-> NoExc, skip |-> FALSE, value |-> value]
        \* the identifier is stored under id_field when the output has none
        Renamed(output) ==
            IF id_field # None /\ id_field \notin DOMAIN output
              THEN IF "ID" \in DOMAIN output /\ PyTruthy(output["ID"])
                     THEN [k \in (DOMAIN output \ {"ID"}) \cup {id_field} |->
                             IF k = id_field THEN output["ID"] ELSE output[k]]
                     ELSE [k \in DOMAIN output \ {"ID"} |-> output[k]]
              ELSE output
        Index(items, name) == CHOOSE i \in DOMAIN items : items[i].name = name
        Output(items, rounds) ==
            Renamed([name \in { items[i].name : i \in { j \in DOMAIN items : ~rounds[j].skip } } |->
                       rounds[Index(items, name)].value])
        Raised(rounds, raised) ==
            IF raised = {} THEN NoExc
            ELSE rounds[CHOOSE i \in raised : \A j \in raised : i <= j].exc
        Result(items, rounds, exc, after) ==
            [exc |-> exc,
             out |-> IF exc # NoExc THEN EmptyMap ELSE Output(items, rounds),
             fields |-> after]
        Finish(items, rounds, after) ==
            Result(items, rounds,
                   Raised(rounds, { i \in DOMAIN rounds : rounds[i].exc # NoExc }), after)
        Loop(items, after) ==
            Finish(items, [i \in DOMAIN items |-> Round(items[i], Get(items[i].name))], after)
        WithId(merged) ==
            IF id_field # None /\ \A i \in DOMAIN merged : merged[i].name # "ID"
              THEN Append(merged, [name |-> "ID", parser |-> [p |-> "int", of |-> {}]])
              ELSE merged
    IN  IF custom # <<>>
          THEN Loop(WithId(DictUpdate(fields, custom)), ClassFieldsAfter(fields, custom))
          ELSE Loop(WithId(fields), fields)

RECURSIVE squash_obj(_)
squash_objMutant(obj) == obj
\* squash_obj(obj): a dict (py "dict" with its mapping) and a list are
\* rebuilt from their squashed values, a FishbowlObject gives the squashed
\* dict of its resolved mapping, any other value is returned as it is
squash_obj(obj) ==
    CASE obj.py = "dict" ->
           [py |-> "dict", mapped |-> [k \in DOMAIN obj.mapped |-> squash_obj(obj.mapped[k])]]
      [] obj.py = "list" ->
           [py |-> "list", l |-> [i \in DOMAIN obj.l |-> squash_obj(obj.l[i])]]
      [] obj.py = "object" -> squash_obj([py |-> "dict", mapped |-> obj.mapped])
      [] OTHER -> obj

\* the data handed to the constructor of a CustomList or returned by its
\* loader: None or a dict
ObjectFields == { Schemas["CustomList"].fields[i].name : i \in DOMAIN Schemas["CustomList"].fields }
DataSamples ==
    { PyNone,
      [py |-> "dict", items |-> << [k |-> "Name", v |-> [py |-> "str", s |-> "n1"]] >>],
      [py |-> "dict", items |-> << [k |-> "name", v |-> [py |-> "str", s |-> "n1"]],
                                   [k |-> "Description", v |-> PyNone] >>],
      [py |-> "dict", items |-> << [k |-> "Other", v |-> [py |-> "str", s |-> "x"]] >>] }

\* parse_fields on a CustomList
ParseItem(data) == parse_fields("CustomList", Schemas["CustomList"].fields, <<>>, data)

\* the values a caller assigns to a field: a text, a number, a list, None
ValueSamples ==
    { [py |-> "str", s |-> "v"], [py |-> "int", n |-> 5], [py |-> "list", l |-> <<>>], PyNone }

TypeMatchesMutant(item, value) == TRUE
\* isinstance(value, expected_type) for the field `item` of the class: the
\* parser itself, str for the parser None, list for a list parser
TypeMatches(item, value) ==
    LET f == CHOOSE f \in { Schemas["CustomList"].fields[i] :
                              i \in DOMAIN Schemas["CustomList"].fields } : f.name = item
    IN  value.py = (CASE f.parser.p = "none" -> "str"
                      [] f.parser.p = "list" -> "list"
                      [] OTHER -> f.parser.p)

ExactlyOneMutant(data, lazy_data) == data.py # "None" \/ lazy_data
\* (data is None) ^ (lazy_data is None); lazy_data: a loader is given
ExactlyOne(data, lazy_data) == (data.py = "None") # (~lazy_data)

ConstructMutant(data, lazy_data) ==
    [LazyIdle EXCEPT !.pc = "ready", !.eager = data.py # "None", !.lazy = lazy_data,
                     !.has_mapped = TRUE, !.calls = 1]
\* FishbowlObject.__init__(data, lazy_data): eager and lazy record what was
\* given; "failed": __init__ raised and there is no object
Construct(data, lazy_data) ==
    IF ~ExactlyOne(data, lazy_data)
      THEN [LazyIdle EXCEPT !.pc = "failed", !.eager = data.py # "None", !.lazy = lazy_data,
                            !.exc = Exc("AttributeError", "Expected either data or lazy_data")]
      ELSE [LazyIdle EXCEPT !.pc = "ready", !.eager = data.py # "None", !.lazy = lazy_data,
                            !.has_mapped = ~lazy_data,
                            !.mapped = IF lazy_data THEN EmptyMap
                                       ELSE ParseItem(data).out]

\* what one invocation of the loader does: it raises or returns a value
LoaderOutcomes == { [py |-> "raise"] } \cup DataSamples

\* the property `mapped` read on object o, the loader behaving as `out` if
\* it is invoked: [o, exc] with o the object afterwards
Mapped(o, out) ==
    IF o.has_mapped THEN [o |-> o, exc |-> NoExc]
    ELSE IF out.py = "raise"
      THEN [o |-> [o EXCEPT !.calls = o.calls + 1], exc |-> Exc("LoaderError", "loader")]
      ELSE [o |-> [o EXCEPT !.calls = o.calls + 1, !.has_mapped = TRUE,
                            !.mapped = ParseItem(out).out],
            exc |-> NoExc]

LazyFrame == << connected, key, username, stream, socks, stack, result, call, log,
                caught, lastErr, nops, fr, cs, mp, qy >>

LazyConstruct ==
    /\ lz.pc = "new"
    /\ \E data \in DataSamples, lazy_data \in BOOLEAN : lz' = Construct(data, lazy_data)
    /\ UNCHANGED LazyFrame

\* __getitem__: return self.mapped[key]
LazyGetItem ==
    /\ lz.pc = "ready"
    /\ lz.n < MaxAccesses
    /\ \E item \in ObjectFields, out \in LoaderOutcomes :
          LET m == Mapped(lz, out)
          IN  lz' = [m.o EXCEPT !.n = lz.n + 1, !.op = "getitem",
                                !.exc = IF m.exc # NoExc THEN m.exc
                                        ELSE IF item \in DOMAIN m.o.mapped THEN NoExc
                                        ELSE Exc("KeyError", item)]
    /\ UNCHANGED LazyFrame

\* __iter__, __len__, __bool__, squash: iter / len / bool / squash_obj of self.mapped
LazyRead ==
    /\ lz.pc = "ready"
    /\ lz.n < MaxAccesses
    /\ \E op \in {"iter", "len", "bool", "squash"}, out \in LoaderOutcomes :
          LET m == Mapped(lz, out)
          IN  lz' = [m.o EXCEPT !.n = lz.n + 1, !.op = op, !.exc = m.exc]
    /\ UNCHANGED LazyFrame

\* __setitem__(key, value): the key must be a field of the class and the
\* value of the field's type, then self.mapped[key] = value; item and value
\* record the arguments
LazySetItem ==
    /\ lz.pc = "ready"
    /\ lz.n < MaxAccesses
    /\ \E item \in ObjectFields \cup {"Other"}, value \in ValueSamples, out \in LoaderOutcomes :
          LET m == Mapped(lz, out)
              set == [k \in DOMAIN m.o.mapped \cup {item} |->
                         IF k = item THEN value ELSE m.o.mapped[k]]
              args(o) == [o EXCEPT !.n = lz.n + 1, !.op = "setitem", !.item = item,
                                   !.value = value]
          IN  lz' = IF item \notin ObjectFields
                      THEN [args(lz) EXCEPT !.exc = Exc("KeyError", "No field named")]
                    ELSE IF ~TypeMatches(item, value)
                      THEN [args(lz) EXCEPT !.exc = Exc("ValueError", "Value was not type")]
                    ELSE IF m.exc # NoExc
                      THEN [args(m.o) EXCEPT !.exc = m.exc]
                    ELSE [args(m.o) EXCEPT !.exc = NoExc, !.mapped = set]
    /\ UNCHANGED LazyFrame

LazyNext == LazyConstruct \/ LazyGetItem \/ LazyRead \/ LazySetItem

\* Init: no object has been constructed yet
LazySpec == Init /\ [][LazyNext]_vars

\* ------------------------------------------------------------------ mapper

\* the items a source dict is drawn from: texts under the keys of a Customer
\* in several spellings, and a value None
ScalarItems ==
    { [k |-> kv[1], v |-> [py |-> "str", s |-> kv[2]]] :
        kv \in { <<"ID", "5">>, <<"ID", "0">>, <<"ID", "x">>, <<"CustomerID", "7">>,
                 <<"CustomerID", "x">>, <<"Name", "n1">>, <<"NAME", "n2">>,
                 <<"Extra", "e">>, <<"Extra", "F">> } }
    \cup { [k |-> "Name", v |-> PyNone] }

\* the items of a list value, as get_xml_data builds them ({tag: data}), one
\* with two pairs, one with a list inside, and the text "{}"
ListItems ==
    { [py |-> "dict", items |->
         << [k |-> "Address", v |-> [py |-> "dict", items |->
               << [k |-> "Name", v |-> [py |-> "str", s |-> "n1"]] >>]] >>],
      [py |-> "dict", items |->
         << [k |-> "State", v |-> [py |-> "dict", items |->
               << [k |-> "NAME", v |-> [py |-> "str", s |-> "n2"]] >>]] >>],
      [py |-> "dict", items |->
         << [k |-> "Zzz", v |-> [py |-> "dict", items |-> <<>>]],
            [k |-> "Address", v |-> [py |-> "dict", items |->
               << [k |-> "ID", v |-> [py |-> "str", s |-> "5"]] >>]] >>],
      [py |-> "dict", items |->
         << [k |-> "CustomList", v |-> [py |-> "dict", items |->
               << [k |-> "CustomListItems", v |-> [py |-> "list", l |->
                     << [py |-> "dict", items |->
                           << [k |-> "CustomListItem", v |-> [py |-> "dict", items |->
                                 << [k |-> "Name", v |-> [py |-> "str", s |-> "n1"]] >>]] >>]
                     >>]] >>]] >>],
      [py |-> "str", s |-> "{}"] }

\* the source dicts: up to MaxKeys scalar items with distinct keys, or a
\* list of up to MaxItems items under a list field, alone or after an ID
MapperSources ==
    LET scalars == { q \in UNION { [1..m -> ScalarItems] : m \in 0..MaxKeys } :
                       \A i, j \in DOMAIN q : q[i].k = q[j].k => i = j }
        lists == UNION { [1..m -> ListItems] : m \in 0..MaxItems }
        tails == { << [k |-> name, v |-> [py |-> "list", l |-> l]] >> :
                    name \in {"Addresses", "Tags"}, l \in lists }
    IN  { [py |-> "dict", items |-> q] : q \in scalars }
        \cup { [py |-> "dict", items |-> q \o t] :
                 q \in { <<>>, << [k |-> "ID", v |-> [py |-> "str", s |-> "5"]] >> },
                 t \in tails }

\* the custom_fields a caller passes: none, a new passthrough field, a new
\* boolean field, a new list field with no candidate classes, another parser
\* for a field of the class
CustomSamples ==
    { <<>>,
      << [name |-> "Extra", parser |-> [p |-> "none", of |-> {}]] >>,
      << [name |-> "Extra", parser |-> [p |-> "bool", of |-> {}]] >>,
      << [name |-> "Tags", parser |-> [p |-> "list", of |-> {}]] >>,
      << [name |-> "Name", parser |-> [p |-> "int", of |-> {}]] >> }

\* a class and a source are chosen; the class attribute `fields` is as declared
MapperInit ==
    /\ connected = FALSE
    /\ key = Unset
    /\ username = Unset
    /\ stream = 0
    /\ socks = <<>>
    /\ stack = <<>>
    /\ result = NoResult
    /\ call = NoCall
    /\ log = <<>>
    /\ caught = NoExc
    /\ lastErr = ""
    /\ nops = 0
    /\ fr = FrameIdle
    /\ cs = StatusIdle
    /\ lz = LazyIdle
    /\ qy = QueryIdle
    /\ \E data \in MapperSources :
          mp = [MapperIdle EXCEPT !.cls = "Customer", !.fields = Schemas["Customer"].fields,
                                  !.data = data]

\* Customer(data, custom_fields = custom): one more object of the class is
\* constructed from the source; merged: an earlier object had custom fields
MapperConstruct ==
    /\ mp.n < MaxObjects
    /\ \E custom \in CustomSamples :
          LET r == parse_fields(mp.cls, mp.fields, custom, mp.data)
          IN  mp' = [mp EXCEPT !.pc = IF r.exc = NoExc THEN "ready" ELSE "failed",
                               !.custom = custom, !.exc = r.exc, !.mapped = r.out,
                               !.merged = mp.merged \/ mp.custom # <<>>,
                               !.squashed = PyNone,
                               !.fields = r.fields, !.n = mp.n + 1]
    /\ UNCHANGED << conn, stack, result, call, log, caught, lastErr, nops, fr, cs, lz, qy >>

\* obj.squash() on the object constructed last
MapperSquash ==
    /\ mp.pc = "ready"
    /\ mp.squashed = PyNone
    /\ mp' = [mp EXCEPT !.squashed = squash_obj([py |-> "dict", mapped |-> mp.mapped])]
    /\ UNCHANGED << conn, stack, result, call, log, caught, lastErr, nops, fr, cs, lz, qy >>

MapperSpec == MapperInit /\ [][MapperConstruct \/ MapperSquash]_vars

\* ------------------------------------------------------------------ queries

\* the text of a Row element as a sequence of characters; <<>> stands for an
\* element without text (row.text is None; no element has the text "")
RowTexts ==
    { <<>>, <<"a">>, <<"b">>, <<"a", ",", "b">>, <<"b", ",", "a">>, <<"a", ",", "a">>,
      <<"b", ",", "b">>, <<"a", ",">> }

\* the file after csvfile.write(f"{row.text}\n") for every row
WriteRows(rows) ==
    LET text(i) == IF rows[i] = <<>> THEN <<"N", "o", "n", "e">> ELSE rows[i]
        file[i \in 0..Len(rows)] ==
            IF i = 0 THEN <<>> ELSE file[i-1] \o text(i) \o <<"\n">>
    IN  file[Len(rows)]

\* the pieces of a text between the occurrences of a separator
Split(text, sep) ==
    LET at == { i \in DOMAIN text : text[i] = sep }
        pos(k) == IF k = 0 THEN 0
                  ELSE IF k > Cardinality(at) THEN Len(text) + 1
                  ELSE CHOOSE i \in at : Cardinality({ j \in at : j < i }) = k - 1
    IN  [k \in 1..(Cardinality(at) + 1) |-> SubSeq(text, pos(k-1) + 1, pos(k) - 1)]

\* the lines of the file (each ends with a newline) as csv.reader parses
\* them: the cells between the commas, no cell for an empty line
CsvLines(file) ==
    LET lines == Split(file, "\n")
    IN  [i \in 1..(Len(lines) - 1) |-> IF lines[i] = <<>> THEN <<>> ELSE Split(lines[i], ",")]

RowDictMutant(fieldnames, row) ==
    [name \in { fieldnames[i] : i \in DOMAIN fieldnames } |-> [py |-> "str", s |-> row[1]]]
\* csv.DictReader: dict(zip(fieldnames, row)), the cells beyond the columns
\* under the key None, None for the columns beyond the cells
RowDict(fieldnames, row) ==
    LET last(name) == CHOOSE i \in DOMAIN fieldnames :
                        /\ fieldnames[i] = name
                        /\ \A j \in DOMAIN fieldnames : fieldnames[j] = name => j <= i
        zipped == { fieldnames[i] : i \in DOMAIN fieldnames \cap DOMAIN row }
        missing == { fieldnames[i] : i \in DOMAIN fieldnames \ DOMAIN row }
        rest == IF Len(row) > Len(fieldnames) THEN { << None >> } ELSE {}
    IN  [name \in zipped \cup missing \cup rest |->
           IF name \in rest /\ name \notin zipped
             THEN [py |-> "list", l |-> SubSeq(row, Len(fieldnames) + 1, Len(row))]
           ELSE IF last(name) \in DOMAIN row THEN [py |-> "str", s |-> row[last(name)]]
           ELSE PyNone]

\* the Row elements of a response, up to MaxRows of them
QueryInit ==
    /\ connected = FALSE
    /\ key = Unset
    /\ username = Unset
    /\ stream = 0
    /\ socks = <<>>
    /\ stack = <<>>
    /\ result = NoResult
    /\ call = NoCall
    /\ log = <<>>
    /\ caught = NoExc
    /\ lastErr = ""
    /\ nops = 0
    /\ fr = FrameIdle
    /\ cs = StatusIdle
    /\ lz = LazyIdle
    /\ mp = MapperIdle
    /\ \E rows \in UNION { [1..n -> RowTexts] : n \in 0..MaxRows } :
          qy = [QueryIdle EXCEPT !.rows = rows]

\* send_query after send_request returned: the rows are written to the file
\* and the reader over it is returned; the caller starts iterating
QueryRows ==
    /\ qy.pc = "new"
    /\ qy' = [qy EXCEPT !.pc = "reader", !.file = WriteRows(qy.rows), !.pass = 1]
    /\ UNCHANGED << conn, stack, result, call, log, caught, lastErr, nops, fr, cs, lz, mp >>

\* next() on the generator UnicodeDictReader returned: the DictReader takes
\* the first line as the field names, skips lines without cells and yields
\* the dict of the next line; the generator ends with the file and stays ended
QueryNextRow ==
    /\ qy.pc = "reader"
    /\ ~qy.done
    /\ LET lines == CsvLines(qy.file)
           fieldnames == IF qy.has_fields \/ lines = <<>> THEN qy.fieldnames ELSE lines[1]
           from == IF qy.has_fields \/ lines = <<>> THEN qy.pos ELSE 1
           next == { i \in DOMAIN lines : i > from /\ lines[i] # <<>> }
           at == CHOOSE i \in next : \A j \in next : i <= j
       IN  qy' = IF qy.exhausted \/ next = {}
                   THEN [qy EXCEPT !.has_fields = qy.has_fields \/ (~qy.exhausted /\ lines # <<>>),
                                   !.fieldnames = IF qy.exhausted THEN qy.fieldnames
                                                  ELSE fieldnames,
                                   !.pos = IF qy.exhausted THEN qy.pos ELSE Len(lines),
                                   !.exhausted = TRUE, !.done = TRUE]
                   ELSE [qy EXCEPT !.has_fields = TRUE, !.fieldnames = fieldnames, !.pos = at,
                                   !.yielded = Append(qy.yielded, RowDict(fieldnames, lines[at]))]
    /\ UNCHANGED << conn, stack, result, call, log, caught, lastErr, nops, fr, cs, lz, mp >>

\* the caller iterates over the same reader once more
QueryAgain ==
    /\ qy.pc = "reader"
    /\ qy.done
    /\ qy.pass < MaxPasses
    /\ qy' = [qy EXCEPT !.pass = qy.pass + 1, !.yielded = <<>>, !.done = FALSE]
    /\ UNCHANGED << conn, stack, result, call, log, caught, lastErr, nops, fr, cs, lz, mp >>

QuerySpec == QueryInit /\ [][QueryRows \/ QueryNextRow \/ QueryAgain]_vars

\* ----------------------------------------------------------------- fairness

\* The interpreter keeps executing the statements of make_stream: every
\* connection attempt ends (login_timeout bounds stream.connect) and every
\* sleep ends.
MakeStreamNext == UserMakeStream \/ MakeStreamAttempt \/ MakeStreamSleep

\* make_stream called directly with every retry count 0..MaxRetry
MakeStreamSpec ==
    Init /\ [][MakeStreamNext]_vars /\ WF_vars(MakeStreamAttempt \/ MakeStreamSleep)

\* The interpreter keeps executing the statements of the running call, and
\* every recv returns (with bytes, with b"" or by the socket's timeout).
FairSpec == Spec /\ WF_vars(Next)

\* ------------------------------------------------------------------- claims

SendOps == {"send_message", "send_request", "send_query"}

\* the events of the running / last call with one of the given kinds
EventsOf(kinds) == { i \in DOMAIN log : log[i].e \in kinds }

NoKeyHeld == ~Truthy(key)
SocketClosed(s) == s \in DOMAIN socks /\ socks[s] = "closed"
Destroyed(s) == ~connected /\ NoKeyHeld /\ SocketClosed(s)

OpenSockets == { s \in DOMAIN socks : socks[s] = "open" }

\* C1: when connect() opened the socket and then fails, it re-raises the
\* failure of the login exchange and returns with the connected flag false,
\* no key held and the socket closed.
C1_ConnectFailureClosesConnection ==
    (/\ Idle
     /\ call.op = "connect"
     /\ EventsOf({"open"}) # {}
     /\ result.exc # NoExc)
    => /\ result.exc = caught
       /\ Destroyed(stream)

\* C2: when send_message is about to raise its timeout error, the connection
\* has been closed: flag false, key cleared, socket closed.
C2_TimeoutClosesConnection ==
    Running("send_message", "raise_timeout") => Destroyed(stream)

\* C3: whenever no operation is in progress and a login has succeeded on the
\* connection, a key is held if and only if the connected flag is true.
C3_KeyIffConnected ==
    (Idle /\ username # Unset) => (Truthy(key) <=> connected)

\* C4: after close() was called on a connected connection, whatever its
\* outcome, the key is cleared, the flag is false and the socket is closed.
C4_CloseDestroysConnection ==
    (Idle /\ call.op = "close" /\ call.connected0) => Destroyed(call.stream0)

\* C5: send_message, send_request and send_query called while the connected
\* flag is false raise "Not connected", write nothing to any socket and leave
\* the key and the connected flag as they were.
C5_NotConnectedRejected ==
    (call.op \in SendOps /\ ~call.connected0)
    => /\ log = <<>>
       /\ key = call.key0
       /\ ~connected
       /\ Idle => result.exc = NotConnected

C5_Witness ==
    /\ Idle
    /\ call.op = "send_query"
    /\ ~call.connected0
    /\ call.username0 = "user"
    /\ result.exc = NotConnected

\* the retry count make_stream was called with in the running / last call
CallRetry == IF call.op = "connect" THEN DefaultRetry ELSE call.retry

InMakeStream == stack # <<>> /\ Top(stack).fn = "make_stream"

C6_AttemptsBounded ==
    call.op \in {"connect", "make_stream"}
    => /\ Cardinality(EventsOf({"failed", "open"})) <= CallRetry + 1
       /\ \A i \in EventsOf({"sleep"}) :
             /\ i > 1 /\ log[i - 1].e = "failed"
             /\ IF i < Len(log) THEN log[i + 1].e \in {"failed", "open"}
                ELSE Running("make_stream", "attempt")
       /\ \A i \in EventsOf({"failed"}) :
             i < Len(log) => log[i + 1].e = "sleep"
       /\ \A i \in EventsOf({"open"}) :
             /\ ~InMakeStream
             /\ \A j \in DOMAIN log : j > i => log[j].e \notin {"failed", "open", "sleep"}

\* C6: opening the TCP connection with retry count r terminates, makes at
\* most r+1 attempts, sleeps only between a failed attempt and the next one,
\* and makes no attempt after the first that succeeds.
C6_MakeStreamTerminates ==
    /\ []C6_AttemptsBounded
    /\ InMakeStream ~> ~InMakeStream

C6_Witness ==
    /\ Idle
    /\ call.op = "make_stream"
    /\ call.retry = DefaultRetry
    /\ Cardinality(EventsOf({"failed"})) = DefaultRetry
    /\ Cardinality(EventsOf({"sleep"})) = DefaultRetry
    /\ result.sock # 0

\* C7: when every connection attempt of connect() fails, connect() raises a
\* connection error carrying the text of the last failed attempt, sends no
\* login request and ends with the flag false and no key held.
C7_ConnectionErrorCarriesLastText ==
    (/\ Idle
     /\ call.op = "connect"
     /\ EventsOf({"failed"}) # {}
     /\ EventsOf({"open"}) = {})
    => /\ result.exc = Exc("FishbowlConnectionError", lastErr)
       /\ \A i \in EventsOf({"send"}) : log[i].req # "login"
       /\ ~connected
       /\ NoKeyHeld

\* C8: connect() on a connected connection closes the old session before it
\* opens the new socket (the logout of a held key is sent and the old socket
\* is closed first), the connection never has two open sockets, and an
\* exception of that close ends connect() before any connection attempt.
C8_CloseBeforeReconnect ==
    /\ Cardinality(OpenSockets) <= 1
    /\ (call.op = "connect" /\ call.connected0)
       => /\ \A i \in EventsOf({"failed", "open"}) :
                /\ \E j \in 1..(i - 1) :
                       log[j] = Event("close", call.stream0, "", None)
                /\ Truthy(call.key0)
                   => \E j \in 1..(i - 1) :
                         /\ log[j].e = "send"
                         /\ log[j].req = "logout"
                         /\ log[j].sock = call.stream0
                         /\ \E k \in (j + 1)..(i - 1) : log[k].e = "close"
          /\ (caught # NoExc /\ EventsOf({"failed", "open"}) = {})
             => (Idle /\ result.exc = caught)

C8_Witness ==
    /\ Idle
    /\ call.op = "connect"
    /\ call.connected0
    /\ Truthy(call.key0)
    /\ result.exc = NoExc
    /\ connected
    /\ stream # call.stream0
    /\ SocketClosed(call.stream0)

\* C9: close(skip_errors=True) never raises; close(skip_errors=False) raises
\* every error of the close sequence, "Not connected" when the connection is
\* not connected.
C9_SkipErrorsDecidesRaise ==
    (Idle /\ call.op = "close")
    => /\ result.exc = IF call.skip THEN NoExc ELSE caught
       /\ (~call.skip /\ ~call.connected0) => result.exc = NotConnected

C9_Witness ==
    /\ Idle
    /\ call.op = "close"
    /\ call.skip
    /\ call.connected0
    /\ caught = Exc("OSError", "send failed")
    /\ result.exc = NoExc

\* the 4 header bytes are an unsigned big-endian number
BigEndianValue(b) == ((b[1] * 256 + b[2]) * 256 + b[3]) * 256 + b[4]

\* C10: pack_message yields the 4-byte unsigned big-endian length of the
\* payload followed by the payload, and the receive sequence of send_message
\* over exactly those bytes yields the payload again, the empty one included.
C10_FrameRoundTrip ==
    /\ (fr.pc = "header" /\ fr.packed = <<>>)
       => /\ Len(fr.wire) >= HeaderLen
          /\ \A i \in 1..HeaderLen : fr.wire[i] \in 0..255
          /\ BigEndianValue(fr.wire) = fr.n
          /\ ~fr.elided => /\ fr.n = Len(fr.payload)
                           /\ fr.wire = SubSeq(fr.wire, 1, HeaderLen) \o fr.payload
    /\ fr.pc = "done"
       => /\ fr.length = fr.n
          /\ ~fr.elided => (fr.response = fr.payload /\ fr.wire = <<>>)

C10_Witness ==
    /\ fr.pc = "done"
    /\ ~fr.elided
    /\ fr.payload = <<>>
    /\ fr.response = <<>>
    /\ fr.packed = << 0, 0, 0, 0 >>

\* C11: however the stream splits the 4 header bytes across reads, the
\* header loop accumulates them in arrival order, decodes the length a single
\* 4-byte read decodes, and never asks for more than the bytes still missing.
C11_HeaderPartialReads ==
    /\ \A i \in DOMAIN fr.reads :
          /\ fr.reads[i].asked <= HeaderLen - fr.reads[i].before
          /\ fr.reads[i].got \in 1..fr.reads[i].asked
          /\ fr.reads[i].before =
                IF i = 1 THEN 0 ELSE fr.reads[i - 1].before + fr.reads[i - 1].got
    /\ fr.pc = "header" => fr.packed = SubSeq(PackL(fr.n), 1, Len(fr.packed))
    /\ fr.pc \in {"payload", "done"}
       => /\ fr.packed = PackL(fr.n)
          /\ fr.length = UnpackL(PackL(fr.n))
          /\ fr.length = fr.n

C11_Witness ==
    /\ fr.pc = "done"
    /\ fr.n = 65536
    /\ fr.length = 65536
    /\ Len(fr.reads) = HeaderLen
    /\ \A i \in DOMAIN fr.reads : fr.reads[i].got = 1

\* C12: a read timeout struck while the header loop was reading raises the
\* timeout error "Connection timeout", one struck while the payload loop was
\* reading raises the timeout error "Connection timeout (after length
\* received)".
C12_TimeoutMessageTellsPhase ==
    [][ Running("send_message", "raise_timeout")
        => /\ Top(stack).at \in RecvPcs
           /\ Raise(Exc("FishbowlTimeoutError",
                        IF Top(stack).at = "header"
                          THEN "Connection timeout"
                          ELSE "Connection timeout (after length received)")) ]_vars

C12_Witness ==
    /\ Idle
    /\ call.op = "send_message"
    /\ EventsOf({"send"}) # {}
    /\ result.exc = Exc("FishbowlTimeoutError",
                        "Connection timeout (after length received)")

\* the message check_status resolves: the statusMessage attribute, the text
\* of the code when there is none
ResolvedMessage == IF cs.message = None THEN get_status(cs.code) ELSE cs.message

\* C13: check_status raises the status error, carrying the resolved message,
\* iff the code differs from the expected one and not (allow_none and the
\* code is absent); otherwise it raises nothing and returns the resolved
\* message.  A code equal to the expected one never fails, a present code
\* that differs always fails, an absent code fails exactly when allow_none
\* is false.
C13_CheckStatusDecision ==
    cs.pc = "done"
    => LET absent == cs.code = None
           differs == cs.code # cs.expected
           raises == cs.exc # NoExc
       IN  /\ raises <=> (differs /\ ~(cs.allow_none /\ absent))
           /\ raises => (cs.exc = Exc("FishbowlError", ResolvedMessage) /\ cs.ret = None)
           /\ ~raises => cs.ret = ResolvedMessage
           /\ ~differs => ~raises
           /\ (~absent /\ differs) => raises
           /\ absent => (raises <=> ~cs.allow_none)

C13_Witness ==
    /\ cs.pc = "done"
    /\ cs.code = None
    /\ cs.allow_none
    /\ cs.message = None
    /\ cs.exc = NoExc
    /\ cs.ret = get_status(None)

\* the status wrapper of the response in the running send_request, and the
\* named response node below it (0: there is none)
WrapperAt ==
    LET doc == Top(stack).doc
        w == { i \in DOMAIN doc : doc[i].tag = "FbiMsgsRs" }
    IN  IF w = {} THEN 0 ELSE CHOOSE i \in w : \A j \in w : i <= j
NamedAt ==
    LET doc == Top(stack).doc
    IN  IF WrapperAt # 0 /\ WrapperAt < Len(doc) /\ doc[WrapperAt + 1].tag = "Rs"
          THEN WrapperAt + 1 ELSE 0
BadStatus(e) == e.code \notin {None, SUCCESS}

\* C14: when send_request is given a response node name and the status of
\* the wrapper or of the named node is not acceptable, it raises nothing and
\* returns the empty placeholder with silence_errors, raises the status error
\* without it, and in both cases leaves the connected flag, the key and the
\* socket as they were.
C14_SilenceErrorsDecides ==
    [][ (/\ Running("send_request", "check")
         /\ Len(stack) = 1
         /\ Top(stack).node
         /\ WrapperAt # 0
         /\ \/ BadStatus(Top(stack).doc[WrapperAt])
            \/ NamedAt # 0 /\ BadStatus(Top(stack).doc[NamedAt]))
        => /\ Idle'
           /\ result' = IF Top(stack).silence
                           THEN [NoResult EXCEPT !.el = EmptyElement]
                           ELSE [NoResult EXCEPT !.exc = Exc("FishbowlError", "status")]
           /\ conn' = conn
           /\ connected' /\ Truthy(key') ]_vars

C14_Witness ==
    /\ Idle
    /\ call.op = "send_request"
    /\ result = [NoResult EXCEPT !.el = EmptyElement]
    /\ connected
    /\ key = "k1"

\* C15: when the statuses are acceptable, send_request with single returns
\* the first child of the named node when it has a child and the empty
\* placeholder when it has none, never the wrapper or the named node itself;
\* without single it returns the named node.
C15_SingleNarrowsToFirstChild ==
    [][ (/\ Running("send_request", "check")
         /\ Len(stack) = 1
         /\ Top(stack).node
         /\ WrapperAt # 0 /\ ~BadStatus(Top(stack).doc[WrapperAt])
         /\ NamedAt # 0 /\ ~BadStatus(Top(stack).doc[NamedAt]))
        => LET doc == Top(stack).doc
               hasChild == NamedAt < Len(doc) /\ doc[NamedAt + 1].tag = "Item"
           IN  /\ Idle'
               /\ result'.exc = NoExc
               /\ result'.el = IF ~Top(stack).single THEN doc[NamedAt]
                                ELSE IF hasChild THEN doc[NamedAt + 1]
                                ELSE EmptyElement
               /\ Top(stack).single => result'.el \notin {doc[WrapperAt], doc[NamedAt]} ]_vars

C15_Witness ==
    /\ Idle
    /\ call.op = "send_request"
    /\ result.exc = NoExc
    /\ result.el.tag = "Item"

\* C16: every request other than the login request that is written to the
\* socket carries the key of the current session: a key that is set and is
\* the one the login response delivered.  This covers the requests
\* send_request builds and the logout request of close.
C16_RequestsCarrySessionKey ==
    \A i \in EventsOf({"send"}) :
        log[i].req # "login" => (Truthy(log[i].key) /\ log[i].key = Elements[1].text)

\* The state part of C17: within one call every
\* request (the caller's request, the logout of a close) is written to a
\* socket at most once, also when the call fails, and connection attempts are
\* made only by connect() (or make_stream called directly), never by a
\* sending or closing call.
C17_SentOnce ==
    /\ \A i, j \in EventsOf({"send"}) :
          (log[i].req = log[j].req /\ log[i].sock = log[j].sock) => i = j
    /\ call.op \in SendOps
       => Cardinality({ i \in EventsOf({"send"}) : log[i].req = "request" }) <= 1
    /\ call.op \notin {"connect", "make_stream"}
       => EventsOf({"open", "failed", "sleep"}) = {}

\* C17: no request is written twice and no socket is opened outside
\* connect() (C17_SentOnce in every state), and once a call has ended the
\* client does nothing until the user makes the next call.
C17_NoRetryOutsideConnect ==
    /\ []C17_SentOnce
    /\ [][Idle => (nops' = nops + 1 /\ log' = <<>> /\ socks' = socks)]_vars

C17_Witness ==
    /\ Idle
    /\ call.op = "send_request"
    /\ result.exc.type = "FishbowlTimeoutError"
    /\ Cardinality(EventsOf({"send"})) = 2
    /\ \E i \in EventsOf({"send"}) : log[i].req = "request"
    /\ OpenSockets = {}

\* C18: in a `with` block the body is left only through __exit__, which
\* calls close with skip_errors set exactly when the body raised; when the
\* body raised, no error of that close reaches the block and the exception
\* the block raises to its caller is the one the body raised.
C18_ExitClosesAndKeepsBodyError ==
    [][ (stack # <<>> /\ stack[1].fn = "with")
        => LET w == stack[1]
           IN  /\ w.pc = "body"
                  => /\ stack' # <<>>
                     /\ stack'[1].pc \in {"body", "exit"}
                     /\ stack'[1].pc = "exit"
                        => /\ Len(stack') = 1
                           /\ stack'[1].saved # NoExc => caught' = stack'[1].saved
               /\ w.pc = "exit"
                  => /\ Len(stack') = 2
                     /\ stack'[2].fn = "close"
                     /\ stack'[2].pc = "start"
                     /\ stack'[2].skip = (w.saved # NoExc)
                     /\ stack'[1].saved = w.saved
               /\ (w.pc \in {"closing", "end"} /\ w.saved # NoExc)
                  => /\ caught' = caught
                     /\ IF stack' = <<>> THEN result'.exc = w.saved
                        ELSE stack'[1].saved = w.saved ]_vars

C18_Witness ==
    /\ Idle
    /\ call.op = "with"
    /\ result.exc = Exc("BodyError", "body")
    /\ caught = Exc("BodyError", "body")
    /\ \E i \in EventsOf({"send"}) : log[i].req = "logout"
    /\ connected

\* C19: whatever the accesses made to a lazily constructed object and
\* whatever its loader does, the loader is invoked at most once in total.
C19_LoaderInvokedAtMostOnce == lz.calls <= 1

C21_ExactlyOneOfDataAndLoader ==
    lz.pc # "new"
    => /\ lz.pc = "failed" <=> (lz.eager <=> lz.lazy)
       /\ lz.pc = "ready" <=> (lz.eager # lz.lazy)
       /\ lz.pc = "failed"
          => /\ lz.exc = Exc("AttributeError", "Expected either data or lazy_data")
             /\ ~lz.has_mapped /\ lz.mapped = EmptyMap /\ lz.calls = 0 /\ lz.n = 0
       /\ (lz.pc = "ready" /\ lz.n = 0) => (lz.exc = NoExc /\ lz.has_mapped = lz.eager)

C21_Witness == lz.pc = "failed" /\ lz.eager /\ lz.lazy

\* the positions of the source's keys that equal the name ignoring case
KeysMatching(name) == { i \in DOMAIN mp.data.items : Lower(mp.data.items[i].k) = Lower(name) }

\* the fields an object resolves that custom_fields did not redefine
PlainFields ==
    { Schemas[mp.cls].fields[i].name : i \in DOMAIN Schemas[mp.cls].fields }
    \ { mp.custom[i].name : i \in DOMAIN mp.custom }

\* C22: a passthrough field that one or more keys of the source match
\* ignoring case is resolved, under the schema's spelling, to the value of
\* the first of these keys in source order.
C22_FirstMatchWins ==
    mp.pc = "ready"
    => \A name \in PlainFields \cap {"Name"} :
          KeysMatching(name) # {}
          => LET first == CHOOSE i \in KeysMatching(name) : \A j \in KeysMatching(name) : i <= j
             IN  mp.data.items[first].v.py = "str"
                 => /\ name \in DOMAIN mp.mapped
                    /\ mp.mapped[name] = mp.data.items[first].v

\* C23: the mapping resolved for a Customer (id_field CustomerID, no field
\* named ID) never has the key ID, and when the source has a key ID whose
\* text is a number, that number is found under CustomerID.
C23_IdentifierRenamed ==
    mp.pc = "ready"
    => /\ "ID" \notin DOMAIN mp.mapped
       /\ \A i \in DOMAIN mp.data.items :
             (mp.data.items[i].k = "ID" /\ mp.data.items[i].v.s \in DOMAIN IntOf)
             => /\ "CustomerID" \in DOMAIN mp.mapped
                /\ mp.mapped["CustomerID"] = [py |-> "int", n |-> IntOf[mp.data.items[i].v.s]]

\* the list fields of the object constructed last with their candidate
\* classes: Addresses, and Tags when custom_fields declared it
ListFields ==
    [ name \in {"Addresses"} \cup { mp.custom[i].name : i \in { j \in DOMAIN mp.custom :
                                                          mp.custom[j].parser.p = "list" } } |->
        IF name = "Addresses" THEN {"Address"} ELSE DOMAIN Schemas ]

\* the (tag, data) pairs of a list value by position <<item, pair>>
PairsOf(l) ==
    { ij \in (DOMAIN l) \X (1..2) : l[ij[1]].py = "dict" /\ ij[2] \in DOMAIN l[ij[1]].items }

\* C24: a list field whose source value is a list of {tag: data} items
\* resolves to a list with one object per pair whose tag names a candidate
\* class (any class in use when there are no candidates), in source order,
\* each of the class its tag names and resolved from its data; the other
\* pairs are dropped and nothing is raised.
C24_ListFieldKeepsMatchingPairs ==
    mp.n > 0
    => /\ mp.pc = "ready"
       /\ \A name \in DOMAIN ListFields : \A i \in DOMAIN mp.data.items :
             mp.data.items[i].k = name
             => LET l == mp.data.items[i].v.l
                    matching == { ij \in PairsOf(l) :
                                    l[ij[1]].items[ij[2]].k \in ListFields[name] }
                    Before(a, b) == a[1] < b[1] \/ (a[1] = b[1] /\ a[2] < b[2])
                    rank(ij) == Cardinality({ b \in matching : Before(b, ij) }) + 1
                IN  /\ name \in DOMAIN mp.mapped
                    /\ mp.mapped[name].py = "list"
                    /\ Len(mp.mapped[name].l) = Cardinality(matching)
                    /\ \A ij \in matching :
                          LET pair == l[ij[1]].items[ij[2]]
                          IN  mp.mapped[name].l[rank(ij)] =
                                [py |-> "object", cls |-> pair.k,
                                 mapped |-> parse_fields(pair.k, Schemas[pair.k].fields,
                                                         <<>>, pair.v).out]

C24_Witness ==
    /\ mp.pc = "ready"
    /\ "Tags" \in DOMAIN mp.mapped
    /\ Len(mp.mapped["Tags"].l) = 2
    /\ mp.mapped["Tags"].l[1].cls = "Address"
    /\ mp.mapped["Tags"].l[1].mapped = [ID |-> [py |-> "int", n |-> 5]]
    /\ mp.mapped["Tags"].l[2].cls = "State"
    /\ \E i \in DOMAIN mp.data.items :
          mp.data.items[i].k = "Tags" /\ Cardinality(PairsOf(mp.data.items[i].v.l)) = 3

\* the fields of the object constructed last that int() converts, the
\* synthesized ID included
IntFields ==
    ({"CustomerID", "ID"} \cap (PlainFields \cup {"ID"}))
    \cup { mp.custom[i].name : i \in { j \in DOMAIN mp.custom : mp.custom[j].parser.p = "int" } }

\* the fields whose conversion raises: the source value they resolve (that of
\* the last matching key) is a text that int() rejects
FailingFields ==
    { name \in IntFields :
        /\ KeysMatching(name) # {}
        /\ LET v == mp.data.items[CHOOSE i \in KeysMatching(name) :
                                    \A j \in KeysMatching(name) : j <= i].v
           IN  v.py = "str" /\ v.s \notin DOMAIN IntOf }

\* what the last construction resolves from the source without the keys of
\* the field
ResolvedWithout(name) ==
    LET Other(it) == Lower(it.k) # Lower(name)
    IN  parse_fields(mp.cls, Schemas[mp.cls].fields, mp.custom,
                     [py |-> "dict", items |-> SelectSeq(mp.data.items, Other)]).out

\* C25 as stated: when the conversion of a field raises, resolving raises
\* nothing, the field is absent from the result and every other field has
\* the value it has for the source without the failing field.
C25_FailedFieldAbsent ==
    mp.n > 0
    => /\ mp.pc = "ready"
       /\ \A name \in FailingFields :
             /\ name \notin DOMAIN mp.mapped
             /\ \A other \in (DOMAIN mp.mapped \cup DOMAIN ResolvedWithout(name)) \ {name} :
                   /\ other \in DOMAIN mp.mapped \cap DOMAIN ResolvedWithout(name)
                   /\ mp.mapped[other] = ResolvedWithout(name)[other]

\* C25 amended: when the conversion of a field raises, resolving raises
\* nothing and the result is the one of the source without the failing
\* field: the field is absent unless it is the id_field and the identifier
\* rename fills it from the source's ID.
C25_FailedFieldAsIfNotInSource ==
    mp.n > 0
    => /\ mp.pc = "ready" /\ mp.exc = NoExc
       /\ \A name \in FailingFields :
             /\ mp.mapped = ResolvedWithout(name)
             /\ name \in DOMAIN mp.mapped
                => /\ name = Schemas[mp.cls].id_field
                   /\ \E i \in DOMAIN mp.data.items :
                         /\ mp.data.items[i].k = "ID"
                         /\ mp.data.items[i].v.s \in DOMAIN IntOf
                         /\ mp.mapped[name] = [py |-> "int", n |-> IntOf[mp.data.items[i].v.s]]

C25_Witness ==
    /\ mp.pc = "ready"
    /\ FailingFields = {"CustomerID"}
    /\ mp.mapped = [CustomerID |-> [py |-> "int", n |-> 5]]

\* C26: after every sequence of constructions with and without custom
\* fields the class attribute `fields` has the names and parsers the class
\* declares, and an object constructed without custom fields resolves the
\* declared fields only, each with its declared parser.
C26_ClassSchemaUnchanged ==
    /\ mp.fields = (IF mp.cls = "" THEN <<>> ELSE Schemas[mp.cls].fields)
    /\ (mp.n > 0 /\ mp.custom = <<>>)
       => /\ DOMAIN mp.mapped \subseteq {"CustomerID", "Name", "Addresses", "ID"}
          /\ "Name" \in DOMAIN mp.mapped => mp.mapped["Name"].py = "str"

C26_Witness ==
    /\ mp.n = 2
    /\ mp.merged
    /\ mp.custom = <<>>
    /\ \E i \in DOMAIN mp.data.items : mp.data.items[i].k = "Extra"
    /\ mp.mapped = [Name |-> [py |-> "str", s |-> "n1"]]

CellsOf(k) == Split(IF qy.rows[k] = <<>> THEN <<"N", "o", "n", "e">> ELSE qy.rows[k], ",")

\* every row holds as many values as the first row has columns
RowsMatchColumns == \A k \in DOMAIN qy.rows : Len(CellsOf(k)) = Len(CellsOf(1))

\* the reader was iterated to its end for the first time, later passes
\* yield nothing
IteratedOnce ==
    /\ (qy.pass = 1 /\ qy.done)
       => Len(qy.yielded) = (IF Len(qy.rows) = 0 THEN 0 ELSE Len(qy.rows) - 1)
    /\ qy.pass = 1 => Len(qy.yielded) <= Len(qy.rows)
    /\ qy.pass > 1 => qy.yielded = <<>>

\* C28 as stated: when every row holds as many values as the first row has
\* columns, the reader yields one mapping per row after the first, in
\* order, with the k-th value of the row under the k-th column name of the
\* first row; it yields nothing for a response without data rows and
\* nothing when it is iterated again.
C28_RowsByPosition ==
    (qy.pc = "reader" /\ RowsMatchColumns)
    => /\ IteratedOnce
       /\ qy.pass = 1
          => \A r \in DOMAIN qy.yielded :
                /\ DOMAIN qy.yielded[r] = { CellsOf(1)[k] : k \in DOMAIN CellsOf(1) }
                /\ \A k \in DOMAIN CellsOf(1) :
                      qy.yielded[r][CellsOf(1)[k]] = [py |-> "str", s |-> CellsOf(r + 1)[k]]

\* C28 amended: the same, the value under a column name being that of the
\* last column of that name in the row.
C28_RowsByLastPosition ==
    (qy.pc = "reader" /\ RowsMatchColumns)
    => /\ IteratedOnce
       /\ qy.pass = 1
          => \A r \in DOMAIN qy.yielded :
                /\ DOMAIN qy.yielded[r] = { CellsOf(1)[k] : k \in DOMAIN CellsOf(1) }
                /\ \A k \in DOMAIN CellsOf(1) :
                      (\A j \in DOMAIN CellsOf(1) : CellsOf(1)[j] = CellsOf(1)[k] => j <= k)
                      => qy.yielded[r][CellsOf(1)[k]] = [py |-> "str", s |-> CellsOf(r + 1)[k]]

C28_Witness ==
    /\ qy.pc = "reader"
    /\ qy.pass = 2
    /\ qy.done
    /\ qy.rows = << <<"a", ",", "a">>, <<"a", ",", "b">>, <<"b", ",", "a">> >>

RECURSIVE Squashed(_, _)
\* sq is obj with every FishbowlObject replaced by a plain dict: a dict or
\* object against a dict with the same keys, a list against a list of the
\* same length, position by position, any other value against itself
Squashed(obj, sq) ==
    CASE obj.py \in {"dict", "object"} ->
           /\ sq.py = "dict"
           /\ DOMAIN sq.mapped = DOMAIN obj.mapped
           /\ \A k \in DOMAIN obj.mapped : Squashed(obj.mapped[k], sq.mapped[k])
      [] obj.py = "list" ->
           /\ sq.py = "list"
           /\ Len(sq.l) = Len(obj.l)
           /\ \A i \in DOMAIN obj.l : Squashed(obj.l[i], sq.l[i])
      [] OTHER -> sq = obj

\* C29: squash() returns the resolved mapping with every object in it, at
\* any depth, replaced by a plain mapping; keys, list lengths, element order
\* and scalar values are those of the resolved mapping.
C29_SquashKeepsShape ==
    mp.squashed # PyNone => Squashed([py |-> "dict", mapped |-> mp.mapped], mp.squashed)

C29_Witness ==
    /\ mp.squashed # PyNone
    /\ DOMAIN mp.mapped = {"CustomerID", "Tags"}
    /\ Len(mp.mapped["Tags"].l) = 2
    /\ mp.mapped["Tags"].l[1].cls = "CustomList"
    /\ mp.mapped["Tags"].l[2].cls = "Address"
    /\ mp.squashed.mapped["Tags"].l[1].mapped["CustomListItems"].l[1] =
         [py |-> "dict", mapped |-> [Name |-> [py |-> "str", s |-> "n1"]]]
    /\ mp.squashed.mapped["Tags"].l[2].py = "dict"
    /\ mp.squashed.mapped["CustomerID"] = [py |-> "int", n |-> 5]

\* the logout frames written in the running / last call
LogoutSends == { i \in EventsOf({"send"}) : log[i].req = "logout" }

\* a timeout is being handled: a send_message frame waits in its except
\* clause for the close it called
HandlingTimeout ==
    \E i \in DOMAIN stack :
       stack[i].fn = "send_message" /\ stack[i].pc \in {"except", "raise_timeout"}

\* at most one logout frame per socket in a call, one in all in a close or
\* a send call, each written with the key already cleared, and never more
\* than two close and two send_message frames on the stack
OneLogout ==
    /\ \A i, j \in LogoutSends : log[i].sock = log[j].sock => i = j
    /\ call.op \in SendOps \cup {"close"} => Cardinality(LogoutSends) <= 1
    /\ \A i \in LogoutSends : log[i].key = None
    /\ \A fn \in {"close", "send_message"} :
          Cardinality({ i \in DOMAIN stack : stack[i].fn = fn }) <= 2

\* C30: close clears the key before it sends the logout, so a top-level
\* close() and the handling of a timeout in send_message write at most one
\* logout frame, nest close and send_message at most twice each, and come
\* to an end.
C30_OneLogoutThenTerminates ==
    /\ []OneLogout
    /\ ((stack # <<>> /\ (call.op = "close" \/ HandlingTimeout)) ~> Idle)

\* the bytes of the frames after the first k of them, as they are on the wire
WireAfter(frames, k) ==
    LET rest[i \in 0..Len(frames)] ==
            IF i <= k THEN <<>> ELSE rest[i - 1] \o pack_message(frames[i])
    IN  rest[Len(frames)]

\* C31: on a stream that carries consecutive well-formed frames, in any
\* chunking, a call that returns has consumed exactly the 4 + length bytes of
\* its own frame and none of the next one: the k-th call returns the payload
\* of the k-th frame and leaves the following frames on the stream.
C31_EachCallReadsItsOwnFrame ==
    /\ \A k \in DOMAIN fr.returned : fr.returned[k] = fr.frames[k]
    /\ (fr.pc = "header" /\ fr.packed = <<>>)
       => fr.wire = WireAfter(fr.frames, Len(fr.returned))
    /\ fr.pc = "done"
       => /\ fr.response = fr.frames[Len(fr.returned) + 1]
          /\ fr.length = Len(fr.response)
          /\ fr.wire = WireAfter(fr.frames, Len(fr.returned) + 1)
          /\ Len(fr.wire) + HeaderLen + fr.length
                = Len(WireAfter(fr.frames, Len(fr.returned)))

C31_Witness ==
    /\ fr.pc = "closed"
    /\ fr.frames = << << 1 >>, << 0, 1 >> >>
    /\ fr.returned = << << 1 >>, << 0, 1 >> >>
    /\ fr.wire = <<>>

\* a request frame is written to the socket in this step
Writes == Len(log') = Len(log) + 1 /\ log'[Len(log')].e = "send"

\* a request written to socket s by a send_message still on the stack has
\* not had its response read to the end: the call is in its receive loops
\* or left them by a timeout
Unanswered(s) ==
    /\ s = stream
    /\ \E i \in DOMAIN stack :
          /\ stack[i].fn = "send_message"
          /\ stack[i].pc \in RecvPcs \cup {"except", "raise_timeout"}

\* C32: a request frame, the logout sent by close included, is written to a
\* socket only when no request written to that socket before is still
\* without its complete response.
C32_OneRequestInFlight == [][Writes => ~Unanswered(log'[Len(log')].sock)]_vars

\* C33: a send_message call made on a connected connection comes to an end,
\* by a return or by an error, whatever the peer does: bytes in any
\* chunking, silence until the reads time out, or closing the stream.
C33_SendMessageTerminates ==
    (stack # <<>> /\ call.op = "send_message" /\ call.connected0) ~> Idle

\* the fields with the boolean parser whose source text is no boolean: not
\* empty, and neither a true token nor a false token
GarbageBooleans ==
    { mp.custom[i].name :
        i \in { j \in DOMAIN mp.custom :
                  /\ mp.custom[j].parser.p = "bool"
                  /\ \E k \in KeysMatching(mp.custom[j].name) :
                        /\ mp.data.items[k].v.py = "str"
                        /\ mp.data.items[k].v.s # ""
                        /\ Lower(mp.data.items[k].v.s)
                              \notin {"0", "false", "f", "1", "true", "t"} } }

\* C34: a field with the boolean parser whose source text cannot be read as
\* a boolean is absent from the resolved mapping, and the other fields
\* resolve as they do without it.
C34_GarbageBooleanAbsent ==
    mp.pc = "ready" => \A f \in GarbageBooleans : f \notin DOMAIN mp.mapped

\* the integers the synthesized field "ID" resolves to: the source has a
\* key matching "ID" whose text int() accepts
IdValues ==
    { IntOf[mp.data.items[i].v.s] :
        i \in { j \in KeysMatching("ID") :
                  /\ mp.data.items[j].v.py = "str"
                  /\ mp.data.items[j].v.s \in DOMAIN IntOf } }

\* C35: when the synthesized field "ID" resolves to an integer and the
\* source has no entry for the identifier field itself, the resolved mapping
\* holds that integer under the identifier field's name, 0 included.
C35_IdReinsertedForEveryInteger ==
    (/\ mp.pc = "ready"
     /\ Schemas[mp.cls].id_field # None
     /\ KeysMatching(Schemas[mp.cls].id_field) = {}
     /\ IdValues # {})
    => /\ Schemas[mp.cls].id_field \in DOMAIN mp.mapped
       /\ mp.mapped[Schemas[mp.cls].id_field].py = "int"
       /\ mp.mapped[Schemas[mp.cls].id_field].n \in IdValues

\* C36: in every state of a connection, the states inside connect and close
\* included, a key is held only while the connected flag is set: connect
\* sets the flag before it stores the key, close clears the key before it
\* resets the flag.
C36_KeyImpliesConnected == Truthy(key) => connected

C36_Witness ==
    /\ Running("close", "logout")
    /\ Truthy(call.key0)
    /\ ~Truthy(key)
    /\ connected

\* a top-level send_message call on a connected connection has ended, by a
\* return or by an error other than the timeout error
EndedWithoutTimeout ==
    /\ Idle
    /\ call.op = "send_message"
    /\ call.connected0
    /\ result.exc.type # "FishbowlTimeoutError"

\* C37: when send_message fails for another reason than a receive timeout
\* (the send fails, a read fails, the response is not well-formed XML), the
\* error reaches the caller and the connected flag, the key and the socket
\* are as they were before the call: the connection remains connected.
C37_OnlyTimeoutCloses ==
    EndedWithoutTimeout
    => /\ result.exc = caught
       /\ connected
       /\ key = call.key0
       /\ stream = call.stream0
       /\ EventsOf({"close", "open"}) = {}
       /\ stream \in DOMAIN socks => socks[stream] # "closed"

C37_Witness ==
    /\ EndedWithoutTimeout
    /\ result.exc.type = "XMLSyntaxError"
    /\ Truthy(key)
    /\ connected
    /\ socks[stream] = "open"

====
